---- MODULE Spec2Model ----
(***************************************************************************)
(* Valuation engine of portfolio_tracker: price resolution with currency   *)
(* conversion (performance.latest_px_eur), fallback valuation              *)
(* (performance._fallback_value), sleeve aggregation                       *)
(* (performance.latest_overview), snapshotting                             *)
(* (performance.capture_eod_snapshots), the holdings table                 *)
(* (performance.get_positions) and the price refresh that appends the      *)
(* observations (providers/pricing.run_price_cycle), each behind its       *)
(* request handler of main.py; the history reader (performance.history),   *)
(* the policy (db.get_policy, db.set_policy), the rebalance advisor        *)
(* (rebalancing.suggest_trades), the CSV imports (ingest/csv_import) and   *)
(* the scheduled snapshot job (providers/scheduler_jobs).                  *)
(*                                                                         *)
(* Python floats are modelled as exact rationals <<n, d>> in lowest terms  *)
(* with d > 0; rounding, infinities and NaN are outside the model.  A      *)
(* division by zero yields RErr, which every later operation propagates;   *)
(* a handler whose computation met it answers 500 (ZeroDivisionError is    *)
(* caught by the handler's except clause).                                 *)
(***************************************************************************)
EXTENDS Integers, Sequences, FiniteSets, TLC

(***************************************************************************)
(* Rational arithmetic                                                     *)
(***************************************************************************)
Abs(x) == IF x < 0 THEN -x ELSE x

RECURSIVE GCD(_, _)
GCD(a, b) == IF b = 0 THEN a ELSE GCD(b, a % b)

RErr == <<0, 0>>
Norm(n, d) ==
    IF d = 0 THEN RErr
    ELSE LET g == GCD(Abs(n), Abs(d))
             s == IF d < 0 THEN -1 ELSE 1
         IN  <<(s * n) \div g, (s * d) \div g>>

R(i) == <<i, 1>>
RZero == R(0)
ROne == R(1)
RAdd(a, b) == Norm(a[1] * b[2] + b[1] * a[2], a[2] * b[2])
RSub(a, b) == Norm(a[1] * b[2] - b[1] * a[2], a[2] * b[2])
RMul(a, b) == Norm(a[1] * b[1], a[2] * b[2])
RDiv(a, b) == Norm(a[1] * b[2], a[2] * b[1])
RPos(a) == a[1] > 0
RNeg(a) == a[1] < 0
RLt(a, b) == a[1] * b[2] < b[1] * a[2]
RAbs(a) == <<Abs(a[1]), a[2]>>
RLeq(a, b) == ~RLt(b, a)

RECURSIVE RSum(_)
RSum(seq) == IF seq = <<>> THEN RZero ELSE RAdd(Head(seq), RSum(Tail(seq)))

(***************************************************************************)
(* Bounds and input domains                                                *)
(***************************************************************************)
\* number of write transactions (price cycles, snapshot runs) in a run
MaxTs == 2

\* asset-class labels stored on instruments: recognised labels that are
\* renamed or kept, an unrecognised label, and the empty label
Labels == {"Crypto", "Stock", "Equity", "Cash", "Zeta", ""}
\* native currencies as stored (import_holdings_csv does not upper-case)
Currencies == {"EUR", "eur", "USD"}
Quantities == {-1, 0, 2}
CostBases == {0, 3}
EntryTotals == {0, 5}
\* what the feeds may deliver
FeedRates == {-1, 0, 2}
CryptoFeed == {0, 2, 4}
ListedFeed == {2, 4}
BaseCurrencies == {"EUR", "USD"}
\* the policies a client may post: one with a target for each held sleeve,
\* one with a target for one held sleeve and for a sleeve that is not held
PolicyInputs ==
    {[base_currency |-> "EUR",
      targets |-> <<[asset_class |-> "Equity", weight |-> <<1, 4>>, band |-> <<1, 4>>],
                    [asset_class |-> "Zeta", weight |-> <<3, 4>>, band |-> <<0, 1>>]>>],
     [base_currency |-> "EUR",
      targets |-> <<[asset_class |-> "Equity", weight |-> <<3, 4>>, band |-> <<1, 4>>],
                    [asset_class |-> "Bonds", weight |-> <<1, 4>>, band |-> <<0, 1>>]>>]}
\* the instrument codes a CSV may name: the stored ones and a new one
NewCodes == {3}
\* quantities and NAV figures of CSV rows; the NAV figures are multiples of
\* the held quantities, so that a per-unit price is a whole number like
\* every other observation of the model
CsvQuantities == {0, 2}
NavValues == {0, 6}
\* the account a CSV names: the account holding the positions, or another
CsvAccounts == {1, 2}
\* what one call of requests.get can meet: status 200, 429, an error status,
\* a status that is neither 200 nor an error, a timeout, a connection error
Responses == {"200", "429", "500", "204", "Timeout", "ConnectionError"}
\* number of responses the remote end has ready for one helper call
MaxResponses == 4
\* the workers that can run POST /policy at the same time
Sessions == {"A", "B"}
\* a policy naming one asset class in two targets
DuplicatePolicies ==
    {[base_currency |-> "USD",
      targets |-> <<[asset_class |-> "Equity", weight |-> <<1, 4>>, band |-> <<0, 1>>],
                    [asset_class |-> "Equity", weight |-> <<3, 4>>, band |-> <<1, 4>>]>>]}
\* Python's None: an optional value is <<>> or <<v>>
None == <<>>
Some(v) == <<v>>
Get(o) == o[1]

VARIABLES
    instruments,          \* table instruments: id -> [asset_class, currency]
    positions,            \* table positions, in the order a query returns them
    prices,               \* table prices: set of [instrument_id, ts, price]
    fx_rates,             \* table fx_rates: set of [ccy, ts, rate_vs_eur]
    position_snapshots,   \* table position_snapshots, in insertion order
    portfolio_snapshots,  \* table portfolio_snapshots, in insertion order
    policy,               \* table policy, in scan order: rows [id, base_currency]
    policy_targets,       \* table policy_targets, in scan order: rows
                          \* [policy_id, asset_class, weight, band]
    now,                  \* the database clock (server_default func.now())
    ret,                  \* the latest request and its response
    sessions              \* the open transaction of each POST /policy worker

vars == <<instruments, positions, prices, fx_rates, position_snapshots,
          portfolio_snapshots, policy, policy_targets, now, ret, sessions>>

store == <<instruments, positions, prices, fx_rates, position_snapshots,
           portfolio_snapshots, policy, policy_targets>>

(***************************************************************************)
(* performance.py                                                          *)
(***************************************************************************)
ASSET_NORMALIZE ==
    ("Equity ETF" :> "Equity") @@ ("Stock" :> "Equity") @@ ("Equity" :> "Equity") @@
    ("Bond" :> "Bonds") @@ ("Bonds" :> "Bonds") @@ ("Fund" :> "Fund") @@
    ("Crypto" :> "Crypto") @@ ("Commodity" :> "Commodity") @@
    ("Lending" :> "Lending") @@ ("Cash" :> "Cash") @@ ("Other" :> "Other")

\* dict.get(key, default)
DictGet(d, k, default) == IF k \in DOMAIN d THEN d[k] ELSE default

\* str.upper() and str.lower() on the strings the model stores
Upper(c) == IF c = "eur" THEN "EUR" ELSE c
Lower(c) ==
    CASE c = "Crypto" -> "crypto" [] c = "Stock" -> "stock"
      [] c = "Equity" -> "equity" [] c = "Cash" -> "cash"
      [] c = "Zeta" -> "zeta" [] OTHER -> c

\* LatestRow ordered by ascending ts: the oldest row
LatestRow_oldest(rows) ==
    IF rows = {} THEN None
    ELSE Some(CHOOSE r \in rows : \A q \in rows : r.ts <= q.ts)

\* .order_by(desc(ts)).first() over a set of rows; None when there is no row
LatestRow(rows) ==
    IF rows = {} THEN None
    ELSE Some(CHOOSE r \in rows : \A q \in rows : q.ts <= r.ts)

\* latest_px_eur dividing by whatever latest rate is stored
latest_px_eur_no_rate_guard(inst_id, inst_ccy) ==
    LET inst == instruments[inst_id]
        p == LatestRow({r \in prices : r.instrument_id = inst_id})
        fx == LatestRow({r \in fx_rates : r.ccy = Upper(inst_ccy)})
    IN  IF p = None THEN RZero
        ELSE IF inst.asset_class = "Crypto" THEN R(Get(p).price)
        ELSE IF Upper(inst_ccy) = "EUR" THEN R(Get(p).price)
        ELSE IF fx = None THEN RZero
        ELSE RDiv(R(Get(p).price), R(Get(fx).rate_vs_eur))

\* latest_px_eur without the special handling of crypto
latest_px_eur_crypto_converted(inst_id, inst_ccy) ==
    LET inst == instruments[inst_id]
        p == LatestRow({r \in prices : r.instrument_id = inst_id})
        fx == LatestRow({r \in fx_rates : r.ccy = Upper(inst_ccy)})
    IN  IF p = None THEN RZero
        ELSE IF Upper(inst_ccy) = "EUR" THEN R(Get(p).price)
        ELSE IF fx = None \/ Get(fx).rate_vs_eur = 0 THEN RZero
        ELSE IF Get(fx).rate_vs_eur <= 0 THEN RZero
        ELSE RDiv(R(Get(p).price), R(Get(fx).rate_vs_eur))

\* latest_px_eur raising when the instrument has no price observation
latest_px_eur_raises_without_price(inst_id, inst_ccy) ==
    LET inst == instruments[inst_id]
        p == LatestRow({r \in prices : r.instrument_id = inst_id})
        fx == LatestRow({r \in fx_rates : r.ccy = Upper(inst_ccy)})
    IN  IF p = None THEN RErr
        ELSE IF inst.asset_class = "Crypto" THEN R(Get(p).price)
        ELSE IF Upper(inst_ccy) = "EUR" THEN R(Get(p).price)
        ELSE IF fx = None \/ Get(fx).rate_vs_eur = 0 THEN RZero
        ELSE IF Get(fx).rate_vs_eur <= 0 THEN RZero
        ELSE RDiv(R(Get(p).price), R(Get(fx).rate_vs_eur))

latest_px_eur(inst_id, inst_ccy) ==
    LET inst == instruments[inst_id]
        p == LatestRow({r \in prices : r.instrument_id = inst_id})
        fx == LatestRow({r \in fx_rates : r.ccy = Upper(inst_ccy)})
    IN  IF p = None THEN RZero
        ELSE IF inst.asset_class = "Crypto" THEN R(Get(p).price)
        ELSE IF Upper(inst_ccy) = "EUR" THEN R(Get(p).price)
        ELSE IF fx = None \/ Get(fx).rate_vs_eur = 0 THEN RZero
        ELSE IF Get(fx).rate_vs_eur <= 0 THEN RZero
        ELSE RDiv(R(Get(p).price), R(Get(fx).rate_vs_eur))

\* fallback_value with the two cost figures tried in the opposite order
fallback_value_cost_first(pos) ==
    IF pos.cost_basis # 0 /\ pos.cost_basis > 0
       /\ pos.quantity # 0 /\ pos.quantity > 0
    THEN RMul(R(pos.quantity), R(pos.cost_basis))
    ELSE IF pos.entry_total > 0 THEN R(pos.entry_total)
    ELSE RZero

fallback_value(pos) ==
    IF pos.entry_total > 0 THEN R(pos.entry_total)
    ELSE IF pos.cost_basis # 0 /\ pos.cost_basis > 0
            /\ pos.quantity # 0 /\ pos.quantity > 0
         THEN RMul(R(pos.quantity), R(pos.cost_basis))
    ELSE RZero

\* index of the entry of key k in a sequence of keyed entries, 0 if absent
KeyIndex(seq, k) ==
    IF \E i \in 1..Len(seq) : seq[i].asset_class = k
    THEN CHOOSE i \in 1..Len(seq) : seq[i].asset_class = k
    ELSE 0

\* the sleeve of a position in latest_overview (performance.py:122)
overview_sleeve(inst) ==
    DictGet(ASSET_NORMALIZE, inst.asset_class,
            IF inst.asset_class = "" THEN "Other" ELSE inst.asset_class)

\* the value of a position in latest_overview (performance.py:123-131)
overview_val(pos, px_eur) ==
    IF RPos(px_eur) THEN RMul(R(pos.quantity), px_eur) ELSE fallback_value(pos)

\* overview_step with the freshness of a sleeve set by its last position
overview_step_fresh_overwrite(acc, pos) ==
    LET inst == instruments[pos.instrument_id]
        sleeve == overview_sleeve(inst)
        px_eur == latest_px_eur(pos.instrument_id, inst.currency)
        val == overview_val(pos, px_eur)
        i == KeyIndex(acc.sleeves, sleeve)
        old == IF i = 0 THEN [asset_class |-> sleeve, value |-> RZero, freshness |-> "stale"]
               ELSE acc.sleeves[i]
        new == [old EXCEPT !.value = RAdd(@, val),
                           !.freshness = IF RPos(px_eur) THEN "ok" ELSE "stale"]
    IN  [sleeves |-> IF i = 0 THEN Append(acc.sleeves, new)
                     ELSE [acc.sleeves EXCEPT ![i] = new],
         total |-> RAdd(acc.total, val)]

\* overview_step with the total accumulated from live-priced positions only
overview_step_total_live_only(acc, pos) ==
    LET inst == instruments[pos.instrument_id]
        sleeve == overview_sleeve(inst)
        px_eur == latest_px_eur(pos.instrument_id, inst.currency)
        val == overview_val(pos, px_eur)
        i == KeyIndex(acc.sleeves, sleeve)
        old == IF i = 0 THEN [asset_class |-> sleeve, value |-> RZero, freshness |-> "stale"]
               ELSE acc.sleeves[i]
        new == [old EXCEPT !.value = RAdd(@, val),
                           !.freshness = IF RPos(px_eur) THEN "ok" ELSE @]
    IN  [sleeves |-> IF i = 0 THEN Append(acc.sleeves, new)
                     ELSE [acc.sleeves EXCEPT ![i] = new],
         total |-> IF RPos(px_eur) THEN RAdd(acc.total, val) ELSE acc.total]

\* one iteration of the loop of latest_overview over (pos, inst); acc holds
\* sleeves_value and sleeves_fresh as one insertion-ordered list, and total
overview_step(acc, pos) ==
    LET inst == instruments[pos.instrument_id]
        sleeve == overview_sleeve(inst)
        px_eur == latest_px_eur(pos.instrument_id, inst.currency)
        val == overview_val(pos, px_eur)
        i == KeyIndex(acc.sleeves, sleeve)
        old == IF i = 0 THEN [asset_class |-> sleeve, value |-> RZero, freshness |-> "stale"]
               ELSE acc.sleeves[i]
        new == [old EXCEPT !.value = RAdd(@, val),
                           !.freshness = IF RPos(px_eur) THEN "ok" ELSE @]
    IN  [sleeves |-> IF i = 0 THEN Append(acc.sleeves, new)
                     ELSE [acc.sleeves EXCEPT ![i] = new],
         total |-> RAdd(acc.total, val)]

RECURSIVE overview_loop(_, _)
overview_loop(rows, acc) ==
    IF rows = <<>> THEN acc
    ELSE overview_loop(Tail(rows), overview_step(acc, Head(rows)))

\* weight_of without the guard on the total
weight_of_unguarded(v, total) == RDiv(v, total)

\* weight of a sleeve or position: v / total if total > 0 else 0.0
weight_of(v, total) == IF RPos(total) THEN RDiv(v, total) ELSE RZero

\* targets[t.asset_class] = t.weight for the targets of the first policy
overview_targets ==
    IF policy = None THEN <<>>
    ELSE SelectSeq(policy_targets, LAMBDA t : t.policy_id = Get(policy).id)

\* target_get with a missing target read as weight 0
target_get_default_zero(targets, sw) ==
    LET hits == {i \in 1..Len(targets) : targets[i].asset_class = sw.asset_class}
    IN  IF hits = {} THEN RZero
        ELSE targets[CHOOSE i \in hits : \A j \in hits : j <= i].weight

\* targets.get(sw.asset_class, sw.weight): a later target of the same asset
\* class overwrites an earlier one
target_get(targets, sw) ==
    LET hits == {i \in 1..Len(targets) : targets[i].asset_class = sw.asset_class}
    IN  IF hits = {} THEN sw.weight
        ELSE targets[CHOOSE i \in hits : \A j \in hits : j <= i].weight

latest_overview(base_ccy) ==
    LET acc == overview_loop(positions, [sleeves |-> <<>>, total |-> RZero])
        by_sleeve == [i \in 1..Len(acc.sleeves) |->
                        [asset_class |-> acc.sleeves[i].asset_class,
                         value |-> acc.sleeves[i].value,
                         weight |-> weight_of(acc.sleeves[i].value, acc.total),
                         freshness |-> acc.sleeves[i].freshness]]
        targets == overview_targets
        drift == [i \in 1..Len(by_sleeve) |->
                    [asset_class |-> by_sleeve[i].asset_class,
                     drift |-> RSub(by_sleeve[i].weight, target_get(targets, by_sleeve[i]))]]
    IN  [total_value |-> acc.total, by_sleeve |-> by_sleeve, drift |-> drift]

\* snapshot_val without the fallback: quantity x price whatever the price
snapshot_val_price_only(pos, px_eur) == RMul(R(pos.quantity), px_eur)

\* the value of a position in capture_eod_snapshots (performance.py:178-179)
snapshot_val(pos, px_eur) ==
    IF RPos(px_eur) THEN RMul(R(pos.quantity), px_eur) ELSE fallback_value(pos)

\* snapshot_sleeve without normalisation
snapshot_sleeve_raw(inst) == inst.asset_class

\* the sleeve of a position in capture_eod_snapshots (performance.py:190)
snapshot_sleeve(inst) ==
    DictGet(ASSET_NORMALIZE, inst.asset_class,
            IF inst.asset_class = "" THEN "Other" ELSE inst.asset_class)

\* the PositionSnapshot row that capture_eod_snapshots adds for a position
position_snapshot(pos) ==
    LET inst == instruments[pos.instrument_id]
        px_eur == latest_px_eur(pos.instrument_id, inst.currency)
    IN  [account_id |-> pos.account_id, instrument_id |-> pos.instrument_id,
         ts |-> now, qty |-> R(pos.quantity), px_eur |-> px_eur,
         value_eur |-> snapshot_val(pos, px_eur)]

\* capture_eod_snapshots leaving out the positions without a live price
capture_eod_snapshots_live_only ==
    LET live == SelectSeq(positions, LAMBDA pos :
                   RPos(latest_px_eur(pos.instrument_id,
                                      instruments[pos.instrument_id].currency)))
        rows == [i \in 1..Len(live) |-> position_snapshot(live[i])]
        sleeve(i) == snapshot_sleeve(instruments[live[i].instrument_id])
        keys == {sleeve(i) : i \in 1..Len(live)}
        vals(k) == [j \in 1..Len(rows) |->
                      IF sleeve(j) = k THEN rows[j].value_eur ELSE RZero]
    IN  [position_rows |-> rows,
         portfolio_row |->
            [ts |-> now,
             total_value_eur |-> RSum([j \in 1..Len(rows) |-> rows[j].value_eur]),
             by_sleeve_json |-> [k \in keys |-> RSum(vals(k))]]]

\* the rows capture_eod_snapshots adds to the session: one PositionSnapshot
\* per position, then one PortfolioSnapshot
capture_eod_snapshots ==
    LET rows == [i \in 1..Len(positions) |-> position_snapshot(positions[i])]
        sleeve(i) == snapshot_sleeve(instruments[positions[i].instrument_id])
        keys == {sleeve(i) : i \in 1..Len(positions)}
        vals(k) == [j \in 1..Len(rows) |->
                      IF sleeve(j) = k THEN rows[j].value_eur ELSE RZero]
    IN  [position_rows |-> rows,
         portfolio_row |->
            [ts |-> now,
             total_value_eur |-> RSum([j \in 1..Len(rows) |-> rows[j].value_eur]),
             by_sleeve_json |-> [k \in keys |-> RSum(vals(k))]]]

\* the value of a position in get_positions (performance.py:230-231, 236-237)
positions_val(pos, px_eur) ==
    IF RPos(px_eur) THEN RMul(R(pos.quantity), px_eur) ELSE fallback_value(pos)

\* the asset class of a position in get_positions (performance.py:250)
positions_asset_class(inst) ==
    DictGet(ASSET_NORMALIZE, inst.asset_class,
            IF inst.asset_class = "" THEN "Other" ELSE inst.asset_class)

\* list.sort(key=value_eur, reverse=True): stable, descending
RECURSIVE SortByValueDesc(_)
SortByValueDesc(seq) ==
    IF seq = <<>> THEN <<>>
    ELSE LET x == seq[Len(seq)]
             rest == SortByValueDesc(SubSeq(seq, 1, Len(seq) - 1))
             before == {i \in 1..Len(rest) : ~RLt(rest[i].value_eur, x.value_eur)}
             k == Cardinality(before)
         IN  SubSeq(rest, 1, k) \o <<x>> \o SubSeq(rest, k + 1, Len(rest))

get_positions ==
    LET px(i) == latest_px_eur(positions[i].instrument_id,
                               instruments[positions[i].instrument_id].currency)
        val(i) == positions_val(positions[i], px(i))
        total_value == RSum([i \in 1..Len(positions) |-> val(i)])
        detail(i) ==
            LET pos == positions[i]
                inst == instruments[pos.instrument_id]
            IN  [code |-> pos.instrument_id,
                 asset_class |-> positions_asset_class(inst),
                 account |-> pos.account_id,
                 quantity |-> R(pos.quantity),
                 price_eur |-> IF RPos(px(i)) THEN px(i) ELSE RZero,
                 value_eur |-> val(i),
                 weight |-> weight_of(val(i), total_value),
                 freshness |-> IF RPos(px(i)) THEN "ok" ELSE "stale",
                 currency |-> IF inst.asset_class = "Crypto" THEN "EUR" ELSE inst.currency]
    IN  SortByValueDesc([i \in 1..Len(positions) |-> detail(i)])

\* list.sort by ascending ts, as ORDER BY ts ASC returns the rows (the sorted
\* front part is bound once, as a member of a one-element set)
RECURSIVE SortByTsAsc(_)
SortByTsAsc(seq) ==
    IF seq = <<>> THEN <<>>
    ELSE CHOOSE sorted \in
            {LET x == seq[Len(seq)]
                 k == Cardinality({i \in 1..Len(rest) : rest[i].ts <= x.ts})
             IN  SubSeq(rest, 1, k) \o <<x>> \o SubSeq(rest, k + 1, Len(rest)) :
                rest \in {SortByTsAsc(SubSeq(seq, 1, Len(seq) - 1))}} : TRUE

\* history reading the snapshots in the order they were inserted
history_insertion_order ==
    [i \in 1..Len(portfolio_snapshots) |->
        [ts |-> portfolio_snapshots[i].ts,
         total_value_eur |-> portfolio_snapshots[i].total_value_eur]]

\* one HistoryPoint per PortfolioSnapshot, ordered by ts ascending
history ==
    CHOOSE points \in
       {[i \in 1..Len(snaps) |->
           [ts |-> snaps[i].ts, total_value_eur |-> snaps[i].total_value_eur]] :
          snaps \in {SortByTsAsc(portfolio_snapshots)}} : TRUE

(***************************************************************************)
(* db.py: the policy                                                       *)
(***************************************************************************)
\* db.get_policy: None, or the PolicyIn built from the first policy row and
\* its targets
db_get_policy ==
    IF policy = None THEN None
    ELSE LET targets == SelectSeq(policy_targets,
                                  LAMBDA t : t.policy_id = Get(policy).id)
         IN  Some([base_currency |-> Get(policy).base_currency,
                   targets |-> [i \in 1..Len(targets) |->
                                  [asset_class |-> targets[i].asset_class,
                                   weight |-> targets[i].weight,
                                   band |-> targets[i].band]]])

\* the PolicyTarget rows db.set_policy adds for policy row id
new_targets(id, p) ==
    [i \in 1..Len(p.targets) |->
        [policy_id |-> id, asset_class |-> p.targets[i].asset_class,
         weight |-> p.targets[i].weight, band |-> p.targets[i].band]]

\* db.set_policy run and committed with no other transaction open: delete
\* every target and every policy, insert the new policy and its targets in
\* the order given. Row ids are only ever compared for equality: the new row
\* takes the least id no stored row carries
db_set_policy(p) ==
    /\ policy' = <<[id |-> 1, base_currency |-> p.base_currency]>>
    /\ policy_targets' = new_targets(1, p)

(***************************************************************************)
(* rebalancing.py                                                          *)
(***************************************************************************)
\* policy_targets = {t.asset_class: t for t in policy.targets}: the last
\* target of an asset class, None when the class has none
target_of(targets, asset_class) ==
    LET hits == {i \in 1..Len(targets) : targets[i].asset_class = asset_class}
    IN  IF hits = {} THEN None
        ELSE Some(targets[CHOOSE i \in hits : \A j \in hits : j <= i])

\* out_of_band with a sleeve at the edge of its band flagged too
out_of_band_inclusive(drift, band) == ~RLt(RAbs(drift), band)

\* abs(drift) > band
out_of_band(drift, band) == RLt(band, RAbs(drift))

\* trade_amount with the sleeve value taken from the target
trade_amount_reversed(total_value, target_weight, current_value) ==
    RSub(current_value, RMul(total_value, target_weight))

\* target_value - current_value
trade_amount(total_value, target_weight, current_value) ==
    RSub(RMul(total_value, target_weight), current_value)

\* suggest_step without the test that the sleeve has a target: a sleeve
\* without one is measured against a target of weight 0 and band 0
suggest_step_untargeted_too(acc, sleeve, overview, targets) ==
    LET t == target_of(targets, sleeve.asset_class)
        target == IF t = None
                  THEN [asset_class |-> sleeve.asset_class, weight |-> RZero, band |-> RZero]
                  ELSE Get(t)
        drift == RSub(sleeve.weight, target.weight)
        amount == trade_amount(overview.total_value, target.weight, sleeve.value)
    IN  IF out_of_band(drift, target.band)
        THEN [hard_drift |-> Append(acc.hard_drift, sleeve.asset_class),
              suggestions |-> Append(acc.suggestions,
                 [asset_class |-> sleeve.asset_class,
                  action |-> IF RPos(amount) THEN "BUY" ELSE "SELL",
                  amount |-> RAbs(amount)])]
        ELSE acc

\* one iteration of the loop of suggest_trades over overview.by_sleeve
suggest_step(acc, sleeve, overview, targets) ==
    LET t == target_of(targets, sleeve.asset_class)
    IN  IF t = None THEN acc
        ELSE LET target == Get(t)
                 drift == RSub(sleeve.weight, target.weight)
                 amount == trade_amount(overview.total_value, target.weight, sleeve.value)
             IN  IF out_of_band(drift, target.band)
                 THEN [hard_drift |-> Append(acc.hard_drift, sleeve.asset_class),
                       suggestions |-> Append(acc.suggestions,
                          [asset_class |-> sleeve.asset_class,
                           action |-> IF RPos(amount) THEN "BUY" ELSE "SELL",
                           amount |-> RAbs(amount)])]
                 ELSE acc

RECURSIVE suggest_loop(_, _, _, _)
suggest_loop(sleeves, acc, overview, targets) ==
    IF sleeves = <<>> THEN acc
    ELSE suggest_loop(Tail(sleeves),
                      suggest_step(acc, Head(sleeves), overview, targets),
                      overview, targets)

suggest_trades(overview, pol) ==
    suggest_loop(overview.by_sleeve, [hard_drift |-> <<>>, suggestions |-> <<>>],
                 overview, pol.targets)

(***************************************************************************)
(* ingest/csv_import.py                                                    *)
(***************************************************************************)
\* db.upsert_instrument taking an instrument_type as well
upsert_instrument_params_with_type ==
    {"code", "name", "asset_class", "currency", "instrument_type"}

\* the keyword parameters of db.upsert_instrument (db.py:26); a call naming
\* any other keyword raises TypeError
upsert_instrument_params == {"code", "name", "asset_class", "currency"}

\* import_holdings_csv for a CSV whose rows all name one account; csv maps
\* each code of the file to the quantity of its row. Rows with quantity > 0
\* are upserted first, through a call that passes instrument_type to
\* db.upsert_instrument; then the positions of the account that have no row, or
\* a row with quantity <= 0, are deleted
import_holdings_csv(account, csv) ==
    LET csv_codes == DOMAIN csv
        upserts == {c \in csv_codes : csv[c] > 0}
        call == {"code", "name", "asset_class", "currency", "instrument_type"}
        deleted(pos) ==
            /\ pos.account_id = account
            /\ \/ pos.instrument_id \notin csv_codes
               \/ pos.instrument_id \in csv_codes /\ pos.instrument_id \notin upserts
    IN  IF upserts # {} /\ ~(call \subseteq upsert_instrument_params)
        THEN [raised |-> TRUE]
        ELSE [raised |-> FALSE, rows |-> Cardinality(upserts),
              positions |-> SelectSeq(positions, LAMBDA pos : ~deleted(pos))]

\* db.upsert_instrument as import_nav_csv calls it: asset_class = "Bonds"
nav_upsert_instrument(code, currency) ==
    IF code \in DOMAIN instruments
    THEN [instruments EXCEPT ![code] =
            [asset_class |-> "Bonds",
             currency |-> IF currency # "" THEN currency ELSE @.currency]]
    ELSE instruments @@ (code :> [asset_class |-> "Bonds", currency |-> currency])

\* the per-unit price import_nav_csv stores: nav / quantity of the first
\* position of the instrument when that quantity is > 0, else nav
nav_per_unit_price(code, nav) ==
    LET held == {i \in 1..Len(positions) : positions[i].instrument_id = code}
        first == CHOOSE i \in held : \A j \in held : i <= j
    IN  IF held # {} /\ positions[first].quantity > 0
        THEN RDiv(R(nav), R(positions[first].quantity))[1]
        ELSE nav

(***************************************************************************)
(* The session of a request: rows added to it reach the tables at commit;  *)
(* leaving the with block on an exception closes the session uncommitted.  *)
(***************************************************************************)
\* a rollback that leaves the rows already added in the table
rollback_keeps_rows(table, pending) == table \o pending

\* Session.close() without commit: the pending rows are discarded
rollback(table, pending) == table

\* Session.commit(): the pending rows are appended
commit(table, pending) == table \o pending

(***************************************************************************)
(* providers/pricing.py                                                    *)
(***************************************************************************)
\* what the providers can return for an instrument in one cycle: None for no
\* price; listed.fetch_price only returns prices > 0, the crypto feed any
\* number, cash is always 1.0, other classes are skipped
price_feed(inst) ==
    LET c == Lower(inst.asset_class)
    IN  IF c = "crypto" THEN {Some(v) : v \in CryptoFeed} \cup {None}
        ELSE IF c \in {"stock", "etf", "equity"} THEN {Some(v) : v \in ListedFeed} \cup {None}
        ELSE IF c = "cash" THEN {Some(1)}
        ELSE {None}

\* the tables fetch_ecb_rates can return: always EUR: 1.0, and a rate for
\* each other currency an instrument of the store is denominated in (the rows
\* of currencies no instrument has are never read and are left out)
ecb_tables ==
    LET used == {Upper(instruments[i].currency) : i \in DOMAIN instruments} \ {"EUR"}
    IN  {("EUR" :> 1) @@ t : t \in [used -> FeedRates]}

\* fx is None when fetch_ecb_rates raised, else Some(the ECB table);
\* px[i] is the fetched price of instrument i
run_price_cycle(fx, px) ==
    /\ fx_rates' = fx_rates \cup
          (IF fx = None THEN {}
           ELSE {[ccy |-> c, ts |-> now, rate_vs_eur |-> Get(fx)[c]] :
                    c \in DOMAIN Get(fx)})
    /\ prices' = prices \cup
          {[instrument_id |-> i, ts |-> now, price |-> Get(px[i])] :
              i \in {j \in DOMAIN instruments : px[j] # None}}

(***************************************************************************)
(* providers/crypto.py, providers/fx_ecb.py, providers/listed.py: the      *)
(* request helpers. responses[n] is what the n-th call of requests.get     *)
(* meets: a status code, a timeout or a connection error. A helper's       *)
(* outcome records the number of calls made, the seconds slept, and either *)
(* the call whose response was returned, None, or the exception raised.    *)
(***************************************************************************)
MAX_RETRIES == 3
RETRY_DELAY == 2

\* 2 ** attempt
Pow2(attempt) == IF attempt = 0 THEN 1 ELSE IF attempt = 1 THEN 2 ELSE 4

\* the sleep that ends every iteration but the last
retry_delay(attempt) == IF attempt < MAX_RETRIES - 1 THEN RETRY_DELAY ELSE 0

\* crypto._make_request_with_retry making one attempt more than MAX_RETRIES
RECURSIVE crypto_make_request_with_retry_one_more(_, _, _)
crypto_make_request_with_retry_one_more(responses, attempt, slept) ==
    IF attempt >= MAX_RETRIES + 1
    THEN [raised |-> "RequestException", attempts |-> attempt, slept |-> slept]
    ELSE LET response == responses[attempt + 1]
         IN  IF response = "200"
             THEN [returned |-> Some(attempt + 1), attempts |-> attempt + 1,
                   slept |-> slept]
             ELSE IF response = "429"
             THEN crypto_make_request_with_retry_one_more(responses, attempt + 1,
                     slept + RETRY_DELAY * Pow2(attempt) + retry_delay(attempt))
             ELSE crypto_make_request_with_retry_one_more(responses, attempt + 1,
                     slept + retry_delay(attempt))

\* crypto._make_request_with_retry from iteration attempt of the loop on: a
\* 200 is returned, a 429 sleeps RETRY_DELAY * 2 ** attempt, any other status
\* either raises HTTPError, which is caught and logged like a timeout or a
\* connection error, or falls through; after the loop RequestException
RECURSIVE crypto_make_request_with_retry(_, _, _)
crypto_make_request_with_retry(responses, attempt, slept) ==
    IF attempt >= MAX_RETRIES
    THEN [raised |-> "RequestException", attempts |-> attempt, slept |-> slept]
    ELSE LET response == responses[attempt + 1]
         IN  IF response = "200"
             THEN [returned |-> Some(attempt + 1), attempts |-> attempt + 1,
                   slept |-> slept]
             ELSE IF response = "429"
             THEN crypto_make_request_with_retry(responses, attempt + 1,
                     slept + RETRY_DELAY * Pow2(attempt) + retry_delay(attempt))
             ELSE crypto_make_request_with_retry(responses, attempt + 1,
                     slept + retry_delay(attempt))

\* fx_ecb._make_request_with_retry: as above without the 429 branch
RECURSIVE fx_ecb_make_request_with_retry(_, _, _)
fx_ecb_make_request_with_retry(responses, attempt, slept) ==
    IF attempt >= MAX_RETRIES
    THEN [raised |-> "RequestException", attempts |-> attempt, slept |-> slept]
    ELSE LET response == responses[attempt + 1]
         IN  IF response = "200"
             THEN [returned |-> Some(attempt + 1), attempts |-> attempt + 1,
                   slept |-> slept]
             ELSE fx_ecb_make_request_with_retry(responses, attempt + 1,
                     slept + retry_delay(attempt))

\* listed._make_request_with_retry: a status other than 200 and 429 is logged
\* and, in the last iteration, None is returned at once; after the loop None
RECURSIVE listed_make_request_with_retry(_, _, _)
listed_make_request_with_retry(responses, attempt, slept) ==
    IF attempt >= MAX_RETRIES
    THEN [returned |-> None, attempts |-> attempt, slept |-> slept]
    ELSE LET response == responses[attempt + 1]
         IN  IF response = "200"
             THEN [returned |-> Some(attempt + 1), attempts |-> attempt + 1,
                   slept |-> slept]
             ELSE IF response = "429"
             THEN listed_make_request_with_retry(responses, attempt + 1,
                     slept + RETRY_DELAY * Pow2(attempt) + retry_delay(attempt))
             ELSE IF response \in {"500", "204"} /\ attempt = MAX_RETRIES - 1
             THEN [returned |-> None, attempts |-> attempt + 1, slept |-> slept]
             ELSE listed_make_request_with_retry(responses, attempt + 1,
                     slept + retry_delay(attempt))

\* one call of each helper against a remote end answering with responses;
\* the helpers keep no state between calls, so a run makes a single call
crypto_request ==
    /\ ret.op = "none"
    /\ \E responses \in [1..MaxResponses -> Responses] :
          ret' = [op |-> "crypto_request", responses |-> responses,
                  outcome |-> crypto_make_request_with_retry(responses, 0, 0)]
    /\ UNCHANGED <<store, now>>
    /\ UNCHANGED sessions

fx_ecb_request ==
    /\ ret.op = "none"
    /\ \E responses \in [1..MaxResponses -> Responses] :
          ret' = [op |-> "fx_ecb_request", responses |-> responses,
                  outcome |-> fx_ecb_make_request_with_retry(responses, 0, 0)]
    /\ UNCHANGED <<store, now>>
    /\ UNCHANGED sessions

listed_request ==
    /\ ret.op = "none"
    /\ \E responses \in [1..MaxResponses -> Responses] :
          ret' = [op |-> "listed_request", responses |-> responses,
                  outcome |-> listed_make_request_with_retry(responses, 0, 0)]
    /\ UNCHANGED <<store, now>>
    /\ UNCHANGED sessions

(***************************************************************************)
(* main.py: the request handlers. Each runs in its own session; a write    *)
(* commits and the clock has advanced when the next transaction starts.    *)
(***************************************************************************)
refresh_prices ==
    /\ now < MaxTs
    /\ \E fx \in {Some(t) : t \in ecb_tables} \cup {None} :
       \E px \in [DOMAIN instruments ->
                    UNION {price_feed(instruments[i]) : i \in DOMAIN instruments}] :
          /\ \A i \in DOMAIN instruments : px[i] \in price_feed(instruments[i])
          /\ run_price_cycle(fx, px)
    /\ now' = now + 1
    /\ ret' = [op |-> "refresh_prices", status |-> 200]
    /\ UNCHANGED <<instruments, positions, position_snapshots,
                   portfolio_snapshots, policy, policy_targets>>
    /\ UNCHANGED sessions

\* a price resolution of the request divided by zero
resolution_raises ==
    \E i \in 1..Len(positions) :
        latest_px_eur(positions[i].instrument_id,
                      instruments[positions[i].instrument_id].currency) = RErr

\* POST /admin/snapshot: an exception leaves the session uncommitted
capture_snapshot ==
    /\ now < MaxTs
    /\ \E added \in {capture_eod_snapshots} :
       LET raised == \/ resolution_raises
                     \/ added.portfolio_row.total_value_eur = RErr
       IN  IF raised
           THEN /\ UNCHANGED <<position_snapshots, portfolio_snapshots>>
                /\ ret' = [op |-> "capture_snapshot", status |-> 500]
           ELSE /\ position_snapshots' = position_snapshots \o added.position_rows
                /\ portfolio_snapshots' = Append(portfolio_snapshots, added.portfolio_row)
                /\ ret' = [op |-> "capture_snapshot", status |-> 200]
    /\ now' = now + 1
    /\ UNCHANGED <<instruments, positions, prices, fx_rates, policy, policy_targets>>
    /\ UNCHANGED sessions

\* GET /portfolio/latest, with base_ccy = os.getenv("BASE_CURRENCY", "EUR")
portfolio_latest ==
    /\ \E base_ccy \in BaseCurrencies :
       \E body \in {latest_overview(base_ccy)} :
          LET raised == \/ resolution_raises
                        \/ body.total_value = RErr
                        \/ \E i \in 1..Len(body.by_sleeve) :
                              \/ body.by_sleeve[i].weight = RErr
                              \/ body.drift[i].drift = RErr
          IN  ret' = IF raised
                     THEN [op |-> "portfolio_latest", base_ccy |-> base_ccy,
                           status |-> 500]
                     ELSE [op |-> "portfolio_latest", base_ccy |-> base_ccy,
                           status |-> 200, body |-> body]
    /\ UNCHANGED <<store, now>>
    /\ UNCHANGED sessions

\* GET /portfolio/positions
portfolio_positions ==
    /\ \E body \in {get_positions} :
       LET raised == \/ resolution_raises
                     \/ \E i \in 1..Len(body) :
                           body[i].weight = RErr \/ body[i].value_eur = RErr
       IN  ret' = IF raised
                  THEN [op |-> "portfolio_positions", status |-> 500]
                  ELSE [op |-> "portfolio_positions", status |-> 200, body |-> body]
    /\ UNCHANGED <<store, now>>
    /\ UNCHANGED sessions

\* POST /admin/snapshot in a run where the database raises after n of the
\* PositionSnapshot rows were added and before the PortfolioSnapshot is; the
\* response carries the number n for the record
capture_snapshot_fails ==
    /\ now < MaxTs
    /\ \E added \in {capture_eod_snapshots} :
       \E n \in 0..Len(added.position_rows) :
          /\ position_snapshots' =
                rollback(position_snapshots, SubSeq(added.position_rows, 1, n))
          /\ portfolio_snapshots' = rollback(portfolio_snapshots, <<>>)
          /\ ret' = [op |-> "capture_snapshot", status |-> 500, added |-> n]
    /\ now' = now + 1
    /\ UNCHANGED <<instruments, positions, prices, fx_rates, policy, policy_targets>>
    /\ UNCHANGED sessions

\* scheduler_jobs._run_eod_snapshot: the run commits, or the database raises
\* after n PositionSnapshot rows and the exception is logged
run_eod_snapshot ==
    /\ now < MaxTs
    /\ \E added \in {capture_eod_snapshots} :
       \E n \in 0..Len(added.position_rows), fails \in BOOLEAN :
          IF fails
          THEN /\ position_snapshots' =
                     rollback(position_snapshots, SubSeq(added.position_rows, 1, n))
               /\ portfolio_snapshots' = rollback(portfolio_snapshots, <<>>)
               /\ ret' = [op |-> "run_eod_snapshot", status |-> 500, added |-> n]
          ELSE /\ n = Len(added.position_rows)
               /\ position_snapshots' = commit(position_snapshots, added.position_rows)
               /\ portfolio_snapshots' =
                     commit(portfolio_snapshots, <<added.portfolio_row>>)
               /\ ret' = [op |-> "run_eod_snapshot", status |-> 200]
    /\ now' = now + 1
    /\ UNCHANGED <<instruments, positions, prices, fx_rates, policy, policy_targets>>
    /\ UNCHANGED sessions

\* GET /portfolio/history
portfolio_history ==
    /\ ret' = [op |-> "portfolio_history", status |-> 200, body |-> history]
    /\ UNCHANGED <<store, now>>
    /\ UNCHANGED sessions

\* POST /upload/holdings deleting, with the positions, their snapshots
upload_holdings_csv_purges_snapshots ==
    /\ \E account \in CsvAccounts :
       \E codes \in SUBSET DOMAIN instruments :
       \E csv \in [codes -> CsvQuantities] :
       \E done \in {import_holdings_csv(account, csv)} :
          IF done.raised
          THEN /\ positions' = positions
               /\ position_snapshots' = position_snapshots
               /\ ret' = [op |-> "upload_holdings_csv", status |-> 500]
          ELSE /\ positions' = done.positions
               /\ position_snapshots' =
                     SelectSeq(position_snapshots, LAMBDA row :
                        \E i \in 1..Len(done.positions) :
                           /\ done.positions[i].account_id = row.account_id
                           /\ done.positions[i].instrument_id = row.instrument_id)
               /\ ret' = [op |-> "upload_holdings_csv", status |-> 200,
                          rows |-> done.rows]
    /\ UNCHANGED <<instruments, prices, fx_rates,
                   portfolio_snapshots, policy, policy_targets, now>>
    /\ UNCHANGED sessions

\* POST /upload/holdings with a CSV file of rows of one account
upload_holdings_csv ==
    /\ \E account \in CsvAccounts :
       \E codes \in SUBSET DOMAIN instruments :
       \E csv \in [codes -> CsvQuantities] :
       \E done \in {import_holdings_csv(account, csv)} :
          IF done.raised
          THEN /\ positions' = positions
               /\ position_snapshots' = position_snapshots
               /\ ret' = [op |-> "upload_holdings_csv", status |-> 500]
          ELSE /\ positions' = done.positions
               /\ position_snapshots' = position_snapshots
               /\ ret' = [op |-> "upload_holdings_csv", status |-> 200,
                          rows |-> done.rows]
    /\ UNCHANGED <<instruments, prices, fx_rates,
                   portfolio_snapshots, policy, policy_targets, now>>
    /\ UNCHANGED sessions

\* POST /upload/nav with a CSV file of one row (no name column)
upload_nav_csv ==
    /\ now < MaxTs
    /\ \E code \in DOMAIN instruments \cup NewCodes, nav \in NavValues :
          IF nav <= 0
          THEN /\ UNCHANGED <<instruments, prices>>
               /\ ret' = [op |-> "upload_nav_csv", status |-> 200, rows |-> 0]
          ELSE /\ instruments' = nav_upsert_instrument(code, "EUR")
               /\ prices' = prices \cup
                     {[instrument_id |-> code, ts |-> now,
                       price |-> nav_per_unit_price(code, nav)]}
               /\ ret' = [op |-> "upload_nav_csv", status |-> 200, rows |-> 1]
    /\ now' = now + 1
    /\ UNCHANGED <<positions, fx_rates, position_snapshots, portfolio_snapshots,
                   policy, policy_targets>>
    /\ UNCHANGED sessions

\* GET /policy
get_policy ==
    /\ \E found \in {db_get_policy} :
          ret' = IF found = None
                 THEN [op |-> "get_policy", status |-> 404,
                       detail |-> "No policy configured."]
                 ELSE [op |-> "get_policy", status |-> 200, body |-> Get(found)]
    /\ UNCHANGED <<store, now>>
    /\ UNCHANGED sessions

\* POST /policy, run from the request to the commit with no other
\* transaction open
set_policy ==
    /\ \E p \in PolicyInputs :
          /\ db_set_policy(p)
          /\ ret' = [op |-> "set_policy", status |-> 200, request |-> p]
    /\ UNCHANGED <<instruments, positions, prices, fx_rates, position_snapshots,
                   portfolio_snapshots, now>>
    /\ UNCHANGED sessions

(***************************************************************************)
(* POST /policy statement by statement, for requests that overlap. The     *)
(* handler takes no lock, and the endpoint is a plain def, which FastAPI   *)
(* runs on a thread pool: each request has its own session and its own     *)
(* transaction on the database of DB_URL (PostgreSQL, READ COMMITTED). A   *)
(* DELETE works on the rows committed when the statement starts, waits for *)
(* a row another open transaction has deleted, and skips a row that is     *)
(* gone when the wait ends; it does not see rows committed meanwhile. A    *)
(* session records the request, the rows its running DELETE has seen, the  *)
(* rows it has deleted (targets by policy_id), the id of its new row, and  *)
(* for POST /upload/holdings the Position rows it has added and deleted.   *)
(***************************************************************************)
Idle ==
    [pc |-> "idle", request |-> None, seen |-> {}, del_targets |-> {},
     del_policies |-> {}, new_id |-> 0, pending |-> <<>>, del_positions |-> {}]

\* the ids of the committed Policy rows, and the policy ids of the committed
\* PolicyTarget rows
policy_ids == {policy[i].id : i \in 1..Len(policy)}
target_policy_ids == {policy_targets[i].policy_id : i \in 1..Len(policy_targets)}

\* the next value of the id sequence: an id no committed row and no open
\* transaction carries; ids are only ever compared for equality, so the
\* least such number stands for it
fresh_id ==
    LET used == policy_ids \cup target_policy_ids \cup
                UNION {sessions[t].seen \cup sessions[t].del_targets \cup
                       sessions[t].del_policies \cup {sessions[t].new_id} :
                          t \in Sessions}
    IN  CHOOSE n \in 1..(Cardinality(used) + 1) :
           n \notin used /\ \A m \in 1..(n - 1) : m \in used

\* the request arrives and s.query(PolicyTarget).delete() starts
set_policy_begin(s) ==
    /\ sessions[s].pc = "idle"
    /\ \E p \in PolicyInputs \cup DuplicatePolicies :
          sessions' = [sessions EXCEPT ![s] =
                         [Idle EXCEPT !.pc = "delete_targets",
                                      !.request = Some(p),
                                      !.seen = target_policy_ids]]
    /\ UNCHANGED <<store, now, ret>>

\* s.query(PolicyTarget).delete() ends: no other open transaction holds a
\* row it has seen
set_policy_delete_targets(s) ==
    /\ sessions[s].pc = "delete_targets"
    /\ \A t \in Sessions \ {s} : sessions[t].del_targets \cap sessions[s].seen = {}
    /\ sessions' = [sessions EXCEPT ![s] =
                      [@ EXCEPT !.pc = "scan_policies",
                                !.del_targets = @ \cup
                                   (sessions[s].seen \cap target_policy_ids),
                                !.seen = {}]]
    /\ UNCHANGED <<store, now, ret>>

\* s.query(Policy).delete() finding no row to delete
set_policy_scan_policies_none(s) ==
    /\ sessions[s].pc = "scan_policies"
    /\ sessions' = [sessions EXCEPT ![s] =
                      [@ EXCEPT !.pc = "delete_policies", !.seen = {}]]
    /\ UNCHANGED <<store, now, ret>>

\* s.query(Policy).delete() starts
set_policy_scan_policies(s) ==
    /\ sessions[s].pc = "scan_policies"
    /\ sessions' = [sessions EXCEPT ![s] =
                      [@ EXCEPT !.pc = "delete_policies", !.seen = policy_ids]]
    /\ UNCHANGED <<store, now, ret>>

\* s.query(Policy).delete() ends. policy_targets.policy_id references
\* policy.id: deleting a policy whose targets this transaction has not
\* deleted raises IntegrityError, the session closes without a commit and
\* the handler answers 500; the check waits for targets another open
\* transaction has deleted
set_policy_delete_policies(s) ==
    /\ sessions[s].pc = "delete_policies"
    /\ \A t \in Sessions \ {s} :
          /\ sessions[t].del_policies \cap sessions[s].seen = {}
          /\ sessions[t].del_targets \cap sessions[s].seen = {}
    /\ LET gone == sessions[s].seen \cap policy_ids
           referenced == (gone \cap target_policy_ids) \ sessions[s].del_targets
       IN  IF referenced # {}
           THEN /\ sessions' = [sessions EXCEPT ![s] = Idle]
                /\ ret' = [op |-> "set_policy", status |-> 500,
                           request |-> Get(sessions[s].request)]
           ELSE /\ sessions' = [sessions EXCEPT ![s] =
                                  [@ EXCEPT !.pc = "insert",
                                            !.del_policies = gone,
                                            !.seen = {}]]
                /\ ret' = ret
    /\ UNCHANGED <<store, now>>

\* s.add(p); s.flush(): the new Policy row gets its id; the PolicyTarget rows
\* are added to the session and flushed by the commit
set_policy_insert(s) ==
    /\ sessions[s].pc = "insert"
    /\ sessions' = [sessions EXCEPT ![s] =
                      [@ EXCEPT !.pc = "commit", !.new_id = fresh_id]]
    /\ UNCHANGED <<store, now, ret>>

\* s.commit(): the deleted rows go, the new rows become visible; where a scan
\* of the table meets the new Policy row among the others is up to the
\* database
set_policy_commit(s) ==
    /\ sessions[s].pc = "commit"
    /\ LET p == Get(sessions[s].request)
           kept == SelectSeq(policy, LAMBDA r : r.id \notin sessions[s].del_policies)
           row == [id |-> sessions[s].new_id, base_currency |-> p.base_currency]
       IN  /\ \E k \in 0..Len(kept) :
                policy' = SubSeq(kept, 1, k) \o <<row>> \o SubSeq(kept, k + 1, Len(kept))
           /\ policy_targets' =
                 commit(SelectSeq(policy_targets,
                                  LAMBDA t : t.policy_id \notin sessions[s].del_targets),
                        new_targets(sessions[s].new_id, p))
           /\ ret' = [op |-> "set_policy", status |-> 200, request |-> p]
    /\ sessions' = [sessions EXCEPT ![s] = Idle]
    /\ UNCHANGED <<instruments, positions, prices, fx_rates, position_snapshots,
                   portfolio_snapshots, now>>

\* the steps of one POST /policy request
set_policy_steps(s) ==
    \/ set_policy_begin(s)
    \/ set_policy_delete_targets(s)
    \/ set_policy_scan_policies(s)
    \/ set_policy_delete_policies(s)
    \/ set_policy_insert(s)
    \/ set_policy_commit(s)

(***************************************************************************)
(* POST /upload/holdings statement by statement, for requests that         *)
(* overlap. The endpoint is an async def that does not await between       *)
(* opening the session and the commit, so uploads overlap when the         *)
(* application runs in several server processes; the handler takes no      *)
(* lock. The CSV names one account and stored instruments, and has no      *)
(* column besides account, code and quantity, so that an upserted          *)
(* instrument keeps its fields and a new position has no cost data.        *)
(***************************************************************************)
\* the keywords of the call of db.upsert_instrument in import_holdings_csv
upsert_instrument_call == {"code", "name", "asset_class", "currency", "instrument_type"}

\* db.upsert_position: the row of the pair as the query of this transaction
\* sees it (the committed rows and its own), updated if there is one, added
\* to the session if not; the result is the rows the session has added
upsert_position(pending, account_id, instrument_id, quantity) ==
    LET found(rows) == \E i \in 1..Len(rows) :
                          /\ rows[i].account_id = account_id
                          /\ rows[i].instrument_id = instrument_id
    IN  IF found(positions) \/ found(pending) THEN pending
        ELSE Append(pending,
                    [account_id |-> account_id, instrument_id |-> instrument_id,
                     quantity |-> quantity, cost_basis |-> 0, entry_total |-> 0])

\* the loop over upserts.items(), in the order of the codes
RECURSIVE upsert_positions(_, _, _, _)
upsert_positions(pending, account_id, csv, codes) ==
    IF codes = {} THEN pending
    ELSE LET code == CHOOSE c \in codes : \A d \in codes : c <= d
         IN  upsert_positions(upsert_position(pending, account_id, code, csv[code]),
                              account_id, csv, codes \ {code})

\* the request arrives and the CSV is read
upload_begin(s) ==
    /\ sessions[s].pc = "idle"
    /\ \E account \in CsvAccounts :
       \E codes \in SUBSET DOMAIN instruments :
       \E csv \in [codes -> CsvQuantities] :
          sessions' = [sessions EXCEPT ![s] =
                         [Idle EXCEPT !.pc = "upsert",
                                      !.request = Some([account |-> account,
                                                        csv |-> csv])]]
    /\ UNCHANGED <<store, now, ret>>

\* the upsert loop: the first call of db.upsert_instrument raises TypeError
\* for a keyword the function does not take, the session closes without a
\* commit and the handler answers 500
upload_upsert(s) ==
    /\ sessions[s].pc = "upsert"
    /\ LET req == Get(sessions[s].request)
           upserts == {c \in DOMAIN req.csv : req.csv[c] > 0}
       IN  IF upserts # {} /\ ~(upsert_instrument_call \subseteq upsert_instrument_params)
           THEN /\ sessions' = [sessions EXCEPT ![s] = Idle]
                /\ ret' = [op |-> "upload_holdings_csv", status |-> 500]
           ELSE /\ sessions' = [sessions EXCEPT ![s] =
                                  [@ EXCEPT !.pc = "delete",
                                            !.pending = upsert_positions(
                                               <<>>, req.account, req.csv, upserts)]]
                /\ ret' = ret
    /\ UNCHANGED <<store, now>>

\* the deletion pass: session.delete for every position of the account, as
\* the query sees them, that has no row in the CSV or a row with quantity 0
upload_delete(s) ==
    /\ sessions[s].pc = "delete"
    /\ LET req == Get(sessions[s].request)
           upserts == {c \in DOMAIN req.csv : req.csv[c] > 0}
           existing == {positions[i] : i \in 1..Len(positions)}
       IN  sessions' = [sessions EXCEPT ![s] =
                          [@ EXCEPT !.pc = "commit",
                                    !.del_positions =
                                       {pos \in existing :
                                           /\ pos.account_id = req.account
                                           /\ pos.instrument_id \notin upserts}]]
    /\ UNCHANGED <<store, now, ret>>

\* s.commit(): the updates, inserts and deletes are flushed and committed; a
\* DELETE of a row that is already gone deletes nothing
upload_commit(s) ==
    /\ sessions[s].pc = "commit"
    /\ LET req == Get(sessions[s].request)
           upserts == {c \in DOMAIN req.csv : req.csv[c] > 0}
           kept == SelectSeq(positions, LAMBDA pos : pos \notin sessions[s].del_positions)
           updated == [i \in 1..Len(kept) |->
                         IF kept[i].account_id = req.account
                            /\ kept[i].instrument_id \in upserts
                         THEN [kept[i] EXCEPT !.quantity = req.csv[kept[i].instrument_id],
                                              !.cost_basis = 0, !.entry_total = 0]
                         ELSE kept[i]]
       IN  /\ positions' = commit(updated, sessions[s].pending)
           /\ ret' = [op |-> "upload_holdings_csv", status |-> 200,
                      rows |-> Cardinality(upserts)]
    /\ sessions' = [sessions EXCEPT ![s] = Idle]
    /\ UNCHANGED <<instruments, prices, fx_rates, position_snapshots,
                   portfolio_snapshots, policy, policy_targets, now>>

\* the steps of one POST /upload/holdings request
upload_steps(s) ==
    \/ upload_begin(s)
    \/ upload_upsert(s)
    \/ upload_delete(s)
    \/ upload_commit(s)

\* GET /rebalance answering an empty result when no policy is stored
get_rebalance_without_policy ==
    /\ \E latest \in {latest_overview("EUR")} :
       \E found \in {db_get_policy} :
          ret' = IF found = None
                 THEN [op |-> "get_rebalance", status |-> 200,
                       body |-> [hard_drift |-> <<>>, suggestions |-> <<>>]]
                 ELSE [op |-> "get_rebalance", status |-> 200,
                       body |-> suggest_trades(latest, Get(found))]
    /\ UNCHANGED <<store, now>>
    /\ UNCHANGED sessions

\* GET /rebalance
get_rebalance ==
    /\ \E latest \in {latest_overview("EUR")} :
       \E found \in {db_get_policy} :
          LET raised == \/ resolution_raises
                        \/ latest.total_value = RErr
                        \/ \E i \in 1..Len(latest.by_sleeve) :
                              \/ latest.by_sleeve[i].weight = RErr
                              \/ latest.drift[i].drift = RErr
          IN  ret' = IF raised
                     THEN [op |-> "get_rebalance", status |-> 500]
                     ELSE IF found = None
                     THEN [op |-> "get_rebalance", status |-> 400,
                           detail |-> "No policy set."]
                     ELSE [op |-> "get_rebalance", status |-> 200,
                           body |-> suggest_trades(latest, Get(found))]
    /\ UNCHANGED <<store, now>>
    /\ UNCHANGED sessions

(***************************************************************************)
(* Initial states: the tables as the process finds them at start-up. The   *)
(* holdings are drawn from bounded sets, no observation has been appended  *)
(* and no snapshot taken.                                                  *)
(***************************************************************************)
InstrumentRows == [asset_class : Labels, currency : Currencies]
PositionRows(i) ==
    [account_id : {1}, instrument_id : {i}, quantity : Quantities,
     cost_basis : CostBases, entry_total : EntryTotals]

InitTables ==
    /\ prices = {}
    /\ fx_rates = {}
    /\ position_snapshots = <<>>
    /\ portfolio_snapshots = <<>>
    /\ policy = None
    /\ policy_targets = <<>>
    /\ now = 0
    /\ ret = [op |-> "none", status |-> 200]
    /\ sessions = [s \in Sessions |-> Idle]

\* the instruments and positions the one-position states are built around
KeyInstruments ==
    {[asset_class |-> "Stock", currency |-> "USD"],
     [asset_class |-> "Crypto", currency |-> "USD"]}
KeyPosition ==
    [account_id |-> 1, instrument_id |-> 1, quantity |-> 2,
     cost_basis |-> 3, entry_total |-> 5]

\* one account holding one position: every kind of instrument under the key
\* position, and every kind of position on the key instruments
InitOne ==
    /\ InitTables
    /\ \E inst \in InstrumentRows : \E pos \in PositionRows(1) :
          /\ inst \in KeyInstruments \/ pos = KeyPosition
          /\ instruments = (1 :> inst)
          /\ positions = <<pos>>

\* one account holding two positions in reporting-currency instruments: a
\* stock, held long or short, and a long position in either an instrument of
\* the same sleeve under another label or one of another sleeve; each
\* position has both cost figures or none
Init ==
    /\ InitTables
    /\ \E l2 \in {"Equity", "Zeta"} :
          instruments = (1 :> [asset_class |-> "Stock", currency |-> "EUR"])
                        @@ (2 :> [asset_class |-> l2, currency |-> "EUR"])
    /\ \E p1 \in PositionRows(1), p2 \in PositionRows(2) :
          /\ p1.quantity # 0 /\ (p1.cost_basis = 0 <=> p1.entry_total = 0)
          /\ p2.quantity > 0 /\ (p2.cost_basis = 0 <=> p2.entry_total = 0)
          /\ positions = <<p1, p2>>

Next ==
    \/ refresh_prices
    \/ capture_snapshot
    \/ portfolio_latest
    \/ portfolio_positions

Spec == Init /\ [][Next]_vars
SpecOne == InitOne /\ [][Next]_vars

\* one account holding a foreign-currency stock, with a cost or none, and
\* the key position in reporting-currency cash; no observation, no policy
InitMissing ==
    /\ InitTables
    /\ instruments = (1 :> [asset_class |-> "Cash", currency |-> "EUR"])
                     @@ (2 :> [asset_class |-> "Stock", currency |-> "USD"])
    /\ \E p2 \in PositionRows(2) :
          /\ p2.quantity = 2 /\ (p2.cost_basis = 0 <=> p2.entry_total = 0)
          /\ positions = <<p2, KeyPosition>>

SpecMissing == InitMissing /\ [][Next]_vars

\* the provider request helpers on their own, over an empty store
InitRetry ==
    /\ InitTables
    /\ instruments = <<>>
    /\ positions = <<>>

NextRetry ==
    \/ crypto_request
    \/ fx_ecb_request
    \/ listed_request

SpecRetry == InitRetry /\ [][NextRetry]_vars

\* one account holding two positions without a price, the first without cost
\* data, the second with a cost or none; no policy stored
InitPolicy ==
    /\ InitTables
    /\ instruments = (1 :> [asset_class |-> "Stock", currency |-> "EUR"])
                     @@ (2 :> [asset_class |-> "Zeta", currency |-> "EUR"])
    /\ \E p2 \in PositionRows(2) :
          /\ p2.quantity = 2 /\ (p2.cost_basis = 0 <=> p2.entry_total = 0)
          /\ positions = <<[account_id |-> 1, instrument_id |-> 1, quantity |-> 2,
                            cost_basis |-> 0, entry_total |-> 0], p2>>

\* the policy endpoints and the rebalance advisor, one request at a time
NextPolicySerial ==
    \/ set_policy_steps("A")
    \/ get_policy
    \/ get_rebalance

SpecPolicySerial == InitPolicy /\ [][NextPolicySerial]_vars

\* POST /policy from two workers at once, and GET /policy
NextPolicy ==
    \/ \E s \in Sessions : set_policy_steps(s)
    \/ get_policy

SpecPolicy == InitPolicy /\ [][NextPolicy]_vars

\* a PortfolioSnapshot of an earlier run, taken while no position was held
OldSnapshot(t) == [ts |-> t, total_value_eur |-> RZero, by_sleeve_json |-> <<>>]

\* one account holding a stock and an instrument of an unrecognised class, no
\* policy stored yet; the second position has a cost or none; the snapshot
\* table is empty or holds two earlier rows, the later one inserted first
InitAll ==
    /\ prices = {}
    /\ fx_rates = {}
    /\ position_snapshots = <<>>
    /\ portfolio_snapshots \in {<<>>, <<OldSnapshot(-1), OldSnapshot(-2)>>}
    /\ policy = None
    /\ policy_targets = <<>>
    /\ now = 0
    /\ ret = [op |-> "none", status |-> 200]
    /\ sessions = [s \in Sessions |-> Idle]
    /\ instruments = (1 :> [asset_class |-> "Stock", currency |-> "EUR"])
                     @@ (2 :> [asset_class |-> "Zeta", currency |-> "EUR"])
    /\ \E p2 \in PositionRows(2) :
          /\ p2.quantity = 2 /\ (p2.cost_basis = 0 <=> p2.entry_total = 0)
          /\ positions = <<KeyPosition, p2>>

\* every request handler and the scheduled snapshot job
NextAll ==
    \/ Next
    \/ capture_snapshot_fails
    \/ run_eod_snapshot
    \/ portfolio_history
    \/ upload_holdings_csv
    \/ upload_nav_csv
    \/ get_policy
    \/ set_policy
    \/ get_rebalance

SpecAll == InitAll /\ [][NextAll]_vars

\* POST /upload/holdings from two workers at once, and GET /portfolio/positions
NextUploads ==
    \/ \E s \in Sessions : upload_steps(s)
    \/ portfolio_positions

SpecUploads == InitAll /\ [][NextUploads]_vars

(***************************************************************************)
(* Properties                                                              *)
(***************************************************************************)
\* the response of the latest request is the successful answer of handler op
Answered(op) == ret.op = op /\ ret.status = 200

\* the position row of an (account, instrument) pair
PositionOf(account_id, instrument_id) ==
    CHOOSE pos \in {positions[i] : i \in 1..Len(positions)} :
        pos.account_id = account_id /\ pos.instrument_id = instrument_id

\* the per-unit value price resolution yields for a position
Resolved(pos) ==
    latest_px_eur(pos.instrument_id, instruments[pos.instrument_id].currency)

\* the PositionSnapshot rows of the snapshot run that has just committed
LastRunRows ==
    {position_snapshots[i] : i \in {j \in 1..Len(position_snapshots) :
                                      position_snapshots[j].ts = now - 1}}

\* the fallback rule of the specification: total entry cost if > 0, else
\* quantity x per-unit cost basis if both > 0, else zero
SpecFallback(pos) ==
    CASE pos.entry_total > 0 -> R(pos.entry_total)
      [] pos.entry_total <= 0 /\ pos.quantity > 0 /\ pos.cost_basis > 0 ->
            R(pos.quantity * pos.cost_basis)
      [] OTHER -> RZero

\* C1: whenever price resolution yields a non-positive per-unit value for a
\* position, latest_overview, capture_eod_snapshots and get_positions value
\* the position by the fallback rule in strict priority order (entry total,
\* then quantity x cost basis, then 0)
C1_FallbackPriority ==
    /\ Answered("portfolio_positions") =>
          \A i \in 1..Len(ret.body) :
             LET pos == PositionOf(ret.body[i].account, ret.body[i].code)
             IN  ~RPos(Resolved(pos)) => ret.body[i].value_eur = SpecFallback(pos)
    /\ Answered("capture_snapshot") =>
          \A row \in LastRunRows :
             LET pos == PositionOf(row.account_id, row.instrument_id)
             IN  ~RPos(Resolved(pos)) => row.value_eur = SpecFallback(pos)
    /\ (Answered("portfolio_latest") /\ Len(positions) = 1) =>
          (~RPos(Resolved(positions[1])) =>
              /\ ret.body.total_value = SpecFallback(positions[1])
              /\ ret.body.by_sleeve[1].value = SpecFallback(positions[1]))

\* a position with entry total 5, cost basis 3 and quantity 2 whose price did
\* not resolve is listed by get_positions with value 5, not 6
C1_Witness ==
    /\ Answered("portfolio_positions")
    /\ \E i \in 1..Len(ret.body) :
          LET pos == PositionOf(ret.body[i].account, ret.body[i].code)
          IN  /\ pos.entry_total = 5 /\ pos.cost_basis = 3 /\ pos.quantity = 2
              /\ ~RPos(Resolved(pos))
              /\ ret.body[i].value_eur = R(5)

\* C2: in every reachable store state the resolved value of every position
\* computed by latest_overview, capture_eod_snapshots and get_positions is
\* >= 0
C2_ValueNeverNegative ==
    /\ Answered("portfolio_positions") =>
          \A i \in 1..Len(ret.body) : ~RNeg(ret.body[i].value_eur)
    /\ \A i \in 1..Len(position_snapshots) : ~RNeg(position_snapshots[i].value_eur)
    /\ (Answered("portfolio_latest") /\ Len(positions) = 1) =>
          ~RNeg(ret.body.total_value)

\* C3: whenever the total value is > 0, every sleeve weight of latest_overview
\* is sleeve value / total value, the sleeve values sum to the total and the
\* weights sum to 1
C3_WeightsSumToOne ==
    (Answered("portfolio_latest") /\ RPos(ret.body.total_value)) =>
        LET sleeves == ret.body.by_sleeve
        IN  /\ \A i \in 1..Len(sleeves) :
                  RMul(sleeves[i].weight, ret.body.total_value) = sleeves[i].value
            /\ RSum([i \in 1..Len(sleeves) |-> sleeves[i].value]) = ret.body.total_value
            /\ RSum([i \in 1..Len(sleeves) |-> sleeves[i].weight]) = ROne

\* an overview of two sleeves, one valued live and one by fallback, whose
\* weights are proper fractions
C3_Witness ==
    /\ Answered("portfolio_latest")
    /\ RPos(ret.body.total_value)
    /\ Len(ret.body.by_sleeve) = 2
    /\ \A i \in 1..2 : /\ RPos(ret.body.by_sleeve[i].weight)
                       /\ RLt(ret.body.by_sleeve[i].weight, ROne)
    /\ ret.body.by_sleeve[1].freshness = "ok"
    /\ ret.body.by_sleeve[2].freshness = "stale"

\* the value of a position under the valuation rule of the specification
SpecValue(pos) ==
    IF RPos(Resolved(pos)) THEN RMul(R(pos.quantity), Resolved(pos))
    ELSE SpecFallback(pos)

\* the total value of the portfolio in the current store
SpecTotal == RSum([i \in 1..Len(positions) |-> SpecValue(positions[i])])

\* C4: when the total portfolio value is 0, latest_overview and get_positions
\* answer without dividing by the total and every sleeve weight and position
\* weight is 0
C4_ZeroTotalWeights ==
    /\ (ret.op = "portfolio_latest" /\ SpecTotal = RZero) =>
          /\ ret.status = 200
          /\ ret.body.total_value = RZero
          /\ \A i \in 1..Len(ret.body.by_sleeve) : ret.body.by_sleeve[i].weight = RZero
    /\ (ret.op = "portfolio_positions" /\ SpecTotal = RZero) =>
          /\ ret.status = 200
          /\ \A i \in 1..Len(ret.body) : ret.body[i].weight = RZero

\* get_positions lists two positions of opposite non-zero values, total 0,
\* both with weight 0
C4_Witness ==
    /\ Answered("portfolio_positions")
    /\ SpecTotal = RZero
    /\ Len(ret.body) = 2
    /\ RPos(ret.body[1].value_eur) /\ RNeg(ret.body[2].value_eur)
    /\ \A i \in 1..2 : ret.body[i].weight = RZero

\* p is the price observation of instrument i with the maximum timestamp
IsLatestPrice(p, i) ==
    /\ p \in prices /\ p.instrument_id = i
    /\ \A q \in prices : q.instrument_id = i => q.ts <= p.ts

\* f is the exchange-rate observation of currency c with the maximum timestamp
IsLatestRate(f, c) ==
    /\ f \in fx_rates /\ f.ccy = c
    /\ \A g \in fx_rates : g.ccy = c => g.ts <= f.ts

\* C5: for an instrument whose native currency equals the reporting currency
\* passed to latest_overview, price resolution returns the latest observed
\* price unchanged, with or without exchange-rate observations: a position
\* in it with a positive latest price is valued at quantity x that price
C5_ReportingCurrencyPassthrough ==
    (Answered("portfolio_latest") /\ Len(positions) = 1) =>
        LET pos == positions[1]
            inst == instruments[pos.instrument_id]
        IN  Upper(inst.currency) = ret.base_ccy =>
               \A p \in prices :
                  (IsLatestPrice(p, pos.instrument_id) /\ p.price > 0) =>
                      ret.body.total_value = R(pos.quantity * p.price)

\* an instrument that is not crypto and not denominated in EUR
ForeignListed(inst) == inst.asset_class # "Crypto" /\ Upper(inst.currency) # "EUR"

\* the latest rate of currency c is absent, zero or negative
NoUsableRate(c) == \A f \in fx_rates : IsLatestRate(f, c) => f.rate_vs_eur <= 0

\* C6: for a non-crypto instrument in a foreign currency whose latest
\* exchange rate is absent, zero or negative, price resolution returns 0
\* without raising, and the position is valued by the fallback rule
C6_NoUsableRateFallsBack ==
    \A k \in 1..Len(positions) :
       LET pos == positions[k]
           inst == instruments[pos.instrument_id]
       IN  (ForeignListed(inst) /\ NoUsableRate(Upper(inst.currency))) =>
             /\ ret.op = "capture_snapshot" =>
                  /\ ret.status = 200
                  /\ \A row \in LastRunRows :
                        row.instrument_id = pos.instrument_id =>
                           /\ row.px_eur = RZero
                           /\ row.value_eur = SpecFallback(pos)
             /\ ret.op = "portfolio_positions" =>
                  /\ ret.status = 200
                  /\ \A i \in 1..Len(ret.body) :
                        ret.body[i].code = pos.instrument_id =>
                           /\ ret.body[i].price_eur = RZero
                           /\ ret.body[i].freshness = "stale"
                           /\ ret.body[i].value_eur = SpecFallback(pos)
             /\ (ret.op = "portfolio_latest" /\ Len(positions) = 1) =>
                  /\ ret.status = 200
                  /\ ret.body.total_value = SpecFallback(pos)
                  /\ ret.body.by_sleeve[1].freshness = "stale"

\* a snapshot of a USD stock with a price observation whose latest USD rate
\* is zero or negative: resolved price 0, fallback value
C6_Witness ==
    /\ Answered("capture_snapshot")
    /\ \E row \in LastRunRows :
          LET inst == instruments[row.instrument_id]
          IN  /\ ForeignListed(inst)
              /\ \E p \in prices : p.instrument_id = row.instrument_id /\ p.price > 0
              /\ \E f \in fx_rates : IsLatestRate(f, Upper(inst.currency))
                                     /\ f.rate_vs_eur <= 0
              /\ row.px_eur = RZero
              /\ RPos(row.value_eur)

\* C7: resolving a foreign-currency instrument returns the price of its
\* observation with the maximum timestamp divided by the rate of the
\* observation with the maximum timestamp for its currency, when that rate
\* is > 0; older observations do not influence the result
C7_LatestPriceOverLatestRate ==
    \A k \in 1..Len(positions) :
       LET pos == positions[k]
           inst == instruments[pos.instrument_id]
       IN  ForeignListed(inst) =>
             \A p \in prices, f \in fx_rates :
                (/\ IsLatestPrice(p, pos.instrument_id)
                 /\ IsLatestRate(f, Upper(inst.currency))
                 /\ f.rate_vs_eur > 0) =>
                   /\ (Answered("portfolio_positions") /\ p.price > 0) =>
                        \A i \in 1..Len(ret.body) :
                           ret.body[i].code = pos.instrument_id =>
                              /\ RMul(ret.body[i].price_eur, R(f.rate_vs_eur)) = R(p.price)
                              /\ ret.body[i].freshness = "ok"
                   /\ Answered("capture_snapshot") =>
                        \A row \in LastRunRows :
                           row.instrument_id = pos.instrument_id =>
                              RMul(row.px_eur, R(f.rate_vs_eur)) = R(p.price)

\* get_positions after two price cycles that delivered different prices and
\* different USD rates: the listed price is the later price over the later rate
C7_Witness ==
    /\ Answered("portfolio_positions")
    /\ \E p, q \in prices, f, g \in fx_rates :
          /\ ForeignListed(instruments[p.instrument_id])
          /\ IsLatestPrice(p, p.instrument_id)
          /\ q.instrument_id = p.instrument_id /\ q.ts < p.ts /\ q.price # p.price
          /\ IsLatestRate(f, "USD") /\ f.rate_vs_eur > 1
          /\ g.ccy = "USD" /\ g.ts < f.ts /\ g.rate_vs_eur # f.rate_vs_eur
          /\ \E i \in 1..Len(ret.body) :
                /\ ret.body[i].code = p.instrument_id
                /\ RMul(ret.body[i].price_eur, R(f.rate_vs_eur)) = R(p.price)

\* C8: a Crypto instrument with a price observation resolves to its latest
\* observed price unmodified whatever its currency and the stored exchange
\* rates; an instrument without any price observation resolves to 0
C8_CryptoDirectAndNoPrice ==
    \A k \in 1..Len(positions) :
       LET pos == positions[k]
           id == pos.instrument_id
           inst == instruments[id]
           unpriced == \A p \in prices : p.instrument_id # id
       IN  /\ Answered("capture_snapshot") =>
                \A row \in LastRunRows : row.instrument_id = id =>
                   /\ inst.asset_class = "Crypto" =>
                         \A p \in prices : IsLatestPrice(p, id) => row.px_eur = R(p.price)
                   /\ unpriced => row.px_eur = RZero /\ row.value_eur = SpecFallback(pos)
           /\ Answered("portfolio_positions") =>
                \A i \in 1..Len(ret.body) : ret.body[i].code = id =>
                   /\ inst.asset_class = "Crypto" =>
                         \A p \in prices : IsLatestPrice(p, id) =>
                            ret.body[i].price_eur = (IF p.price > 0 THEN R(p.price) ELSE RZero)
                   /\ unpriced => /\ ret.body[i].price_eur = RZero
                                  /\ ret.body[i].freshness = "stale"
                                  /\ ret.body[i].value_eur = SpecFallback(pos)

\* get_positions lists a crypto instrument denominated in USD at its latest
\* observed price although a positive USD rate other than 1 is stored
C8_Witness ==
    /\ Answered("portfolio_positions")
    /\ \E p \in prices, f \in fx_rates :
          /\ instruments[p.instrument_id] = [asset_class |-> "Crypto", currency |-> "USD"]
          /\ IsLatestPrice(p, p.instrument_id) /\ p.price > 0
          /\ IsLatestRate(f, "USD") /\ f.rate_vs_eur > 1
          /\ \E i \in 1..Len(ret.body) :
                ret.body[i].code = p.instrument_id /\ ret.body[i].price_eur = R(p.price)

\* the canonical sleeve of each recognised label
Recognised ==
    {"Equity ETF", "Stock", "Equity", "Bond", "Bonds", "Fund", "Crypto",
     "Commodity", "Lending", "Cash", "Other"}
Canonical(label) ==
    CASE label \in {"Equity ETF", "Stock"} -> "Equity"
      [] label = "Bond" -> "Bonds"
      [] OTHER -> label

\* normalisation as specified: recognised labels go to their canonical sleeve,
\* every other label passes through unchanged
SpecSleevePassThrough(label) ==
    IF label \in Recognised THEN Canonical(label) ELSE label

\* normalisation with the empty label sent to the sleeve "Other"
SpecSleeve(label) ==
    IF label \in Recognised THEN Canonical(label)
    ELSE IF label = "" THEN "Other" ELSE label

\* the sleeves of the held positions under a normalisation
HeldSleeves(Normalise(_)) ==
    {Normalise(instruments[positions[k].instrument_id].asset_class) :
        k \in 1..Len(positions)}

\* latest_overview, capture_eod_snapshots and get_positions all report the
\* positions under the sleeves that Normalise gives their labels
SleevesFollow(Normalise(_)) ==
    /\ Answered("portfolio_latest") =>
          {ret.body.by_sleeve[i].asset_class : i \in 1..Len(ret.body.by_sleeve)}
             = HeldSleeves(Normalise)
    /\ Answered("capture_snapshot") =>
          DOMAIN portfolio_snapshots[Len(portfolio_snapshots)].by_sleeve_json
             = HeldSleeves(Normalise)
    /\ Answered("portfolio_positions") =>
          \A i \in 1..Len(ret.body) :
             ret.body[i].asset_class
                = Normalise(instruments[ret.body[i].code].asset_class)

\* C9: a sleeve of latest_overview is "ok" if and only if at least one
\* position contributing to it was valued with a live (positive) resolved
\* price, otherwise "stale", whatever the order of the positions
C9_SleeveFreshness ==
    Answered("portfolio_latest") =>
        \A i \in 1..Len(ret.body.by_sleeve) :
           LET sw == ret.body.by_sleeve[i]
               live == \E k \in 1..Len(positions) :
                          /\ SpecSleeve(instruments[positions[k].instrument_id].asset_class)
                                = sw.asset_class
                          /\ RPos(Resolved(positions[k]))
           IN  sw.freshness = (IF live THEN "ok" ELSE "stale")

\* one sleeve fed by a live-priced position processed first and a fallback
\* position processed last is reported "ok"
C9_Witness ==
    /\ Answered("portfolio_latest")
    /\ Len(positions) = 2 /\ Len(ret.body.by_sleeve) = 1
    /\ RPos(Resolved(positions[1])) /\ ~RPos(Resolved(positions[2]))
    /\ ret.body.by_sleeve[1].freshness = "ok"

\* C10 as stated: recognised labels map to their canonical sleeve and every
\* unrecognised label passes through unchanged, in latest_overview,
\* capture_eod_snapshots and get_positions alike
C10_EveryUnrecognisedPassesThrough == SleevesFollow(SpecSleevePassThrough)

\* C10 amended: recognised labels map to their canonical sleeve, the empty
\* label becomes the sleeve "Other" and every other unrecognised label passes
\* through unchanged, in latest_overview, capture_eod_snapshots and
\* get_positions alike
C10_Normalisation == SleevesFollow(SpecSleeve)

\* a snapshot of a position whose instrument carries a renamed, an
\* unrecognised or the empty label, filed under Equity, the label itself or
\* Other
C10_Witness ==
    /\ Answered("capture_snapshot")
    /\ Len(positions) = 1
    /\ LET label == instruments[positions[1].instrument_id].asset_class
           keys == DOMAIN portfolio_snapshots[Len(portfolio_snapshots)].by_sleeve_json
       IN  label = "" /\ keys = {"Other"}

\* the stored policy has a target for sleeve k
HasTarget(k) ==
    policy # None /\ \E i \in 1..Len(policy_targets) : policy_targets[i].asset_class = k

\* the weight and the band of the stored target of sleeve k
TargetWeight(k) ==
    policy_targets[CHOOSE i \in 1..Len(policy_targets) :
                      policy_targets[i].asset_class = k].weight
TargetBand(k) ==
    policy_targets[CHOOSE i \in 1..Len(policy_targets) :
                      policy_targets[i].asset_class = k].band

\* the drift entries of an overview follow its sleeves, one per sleeve
DriftPerSleeve(body) ==
    /\ Len(body.drift) = Len(body.by_sleeve)
    /\ \A i \in 1..Len(body.by_sleeve) :
          body.drift[i].asset_class = body.by_sleeve[i].asset_class

\* C11 as stated: for every sleeve of latest_overview, drift = sleeve weight -
\* policy target weight, the target weight being 0 when the sleeve has no
\* configured target
C11_DriftAgainstZeroTarget ==
    Answered("portfolio_latest") =>
        /\ DriftPerSleeve(ret.body)
        /\ \A i \in 1..Len(ret.body.by_sleeve) :
              LET sw == ret.body.by_sleeve[i]
              IN  ret.body.drift[i].drift =
                     RSub(sw.weight,
                          IF HasTarget(sw.asset_class) THEN TargetWeight(sw.asset_class)
                          ELSE RZero)

\* C11 amended: for every sleeve of latest_overview, drift = sleeve weight -
\* policy target weight when the sleeve has a configured target, and drift = 0
\* when it has none (no policy stored, or no target for the sleeve)
C11_DriftAgainstTarget ==
    Answered("portfolio_latest") =>
        /\ DriftPerSleeve(ret.body)
        /\ \A i \in 1..Len(ret.body.by_sleeve) :
              LET sw == ret.body.by_sleeve[i]
              IN  ret.body.drift[i].drift =
                     (IF HasTarget(sw.asset_class)
                      THEN RSub(sw.weight, TargetWeight(sw.asset_class))
                      ELSE RZero)

\* an overview under a stored policy with a sleeve off its target (non-zero
\* drift) next to a sleeve of non-zero weight without target (drift 0)
C11_Witness ==
    /\ Answered("portfolio_latest")
    /\ policy # None
    /\ \E i, j \in 1..Len(ret.body.by_sleeve) :
          /\ HasTarget(ret.body.by_sleeve[i].asset_class)
          /\ ret.body.drift[i].drift # RZero
          /\ ~HasTarget(ret.body.by_sleeve[j].asset_class)
          /\ RPos(ret.body.by_sleeve[j].weight)
          /\ ret.body.drift[j].drift = RZero

\* the value and the weight of sleeve k in the current store, by the
\* valuation rule of the specification
SleeveValue(k) ==
    RSum([i \in 1..Len(positions) |->
            IF SpecSleeve(instruments[positions[i].instrument_id].asset_class) = k
            THEN SpecValue(positions[i]) ELSE RZero])
SleeveWeight(k) ==
    IF RPos(SpecTotal) THEN RDiv(SleeveValue(k), SpecTotal) ELSE RZero

\* the sleeves a rebalance result flags, and those it suggests a trade for
Flagged(body) == {body.hard_drift[i] : i \in 1..Len(body.hard_drift)}
Suggested(body) == {body.suggestions[i].asset_class : i \in 1..Len(body.suggestions)}

\* the magnitude of the drift of sleeve k against its stored target
DriftMagnitude(k) == RAbs(RSub(SleeveWeight(k), TargetWeight(k)))

\* C12: suggest_trades flags a sleeve only when |current weight - target
\* weight| is strictly greater than the band: a sleeve whose drift magnitude
\* equals its band is neither in hard_drift nor given a suggestion, any larger
\* drift magnitude is flagged
C12_BandStrictness ==
    Answered("get_rebalance") =>
        \A k \in HeldSleeves(SpecSleeve) :
           HasTarget(k) =>
              /\ DriftMagnitude(k) = TargetBand(k) =>
                    k \notin Flagged(ret.body) /\ k \notin Suggested(ret.body)
              /\ RLt(TargetBand(k), DriftMagnitude(k)) => k \in Flagged(ret.body)
              /\ k \in Flagged(ret.body) => RLt(TargetBand(k), DriftMagnitude(k))

\* a rebalance result for a sleeve of weight 1/2 with target 1/4 and band 1/4,
\* not flagged, next to a sleeve beyond its band, flagged
C12_Witness ==
    /\ Answered("get_rebalance")
    /\ \E k, l \in HeldSleeves(SpecSleeve) :
          /\ HasTarget(k) /\ HasTarget(l)
          /\ RPos(TargetBand(k)) /\ DriftMagnitude(k) = TargetBand(k)
          /\ k \notin Flagged(ret.body)
          /\ RLt(TargetBand(l), DriftMagnitude(l))
          /\ l \in Flagged(ret.body)

\* the trade that brings sleeve k back to its stored target
RequiredTrade(k) == RSub(RMul(TargetWeight(k), SpecTotal), SleeveValue(k))

\* C13: for every sleeve flagged out of band suggest_trades emits one
\* suggestion whose trade value is target weight x total value - current
\* sleeve value: BUY when positive, SELL when negative, amount its absolute
\* value
C13_TradeSuggestion ==
    Answered("get_rebalance") =>
        /\ Len(ret.body.suggestions) = Len(ret.body.hard_drift)
        /\ \A i \in 1..Len(ret.body.hard_drift) :
              LET k == ret.body.hard_drift[i]
                  sug == ret.body.suggestions[i]
              IN  /\ sug.asset_class = k
                  /\ \A j \in 1..Len(ret.body.hard_drift) :
                        ret.body.hard_drift[j] = k => j = i
                  /\ sug.amount = RAbs(RequiredTrade(k))
                  /\ RPos(RequiredTrade(k)) => sug.action = "BUY"
                  /\ RNeg(RequiredTrade(k)) => sug.action = "SELL"

\* a rebalance result that tells to sell one sleeve and to buy another, each
\* by a non-zero amount
C13_Witness ==
    /\ Answered("get_rebalance")
    /\ \E i, j \in 1..Len(ret.body.suggestions) :
          /\ ret.body.suggestions[i].action = "SELL"
          /\ RNeg(RequiredTrade(ret.body.suggestions[i].asset_class))
          /\ ret.body.suggestions[j].action = "BUY"
          /\ RPos(RequiredTrade(ret.body.suggestions[j].asset_class))

\* C14: suggest_trades reports only sleeves that are both in the overview and
\* in the policy targets: a held sleeve without target is never flagged or
\* suggested whatever its weight, and a target whose sleeve is not held
\* produces no flag and no suggestion
C14_OnlyHeldAndTargeted ==
    Answered("get_rebalance") =>
        \A k \in Flagged(ret.body) \cup Suggested(ret.body) :
           k \in HeldSleeves(SpecSleeve) /\ HasTarget(k)

\* a rebalance result that flags a sleeve while another held sleeve of
\* non-zero weight has no target and a target names a sleeve that is not held
C14_Witness ==
    /\ Answered("get_rebalance")
    /\ Flagged(ret.body) # {}
    /\ \E k \in HeldSleeves(SpecSleeve) :
          ~HasTarget(k) /\ RPos(SleeveWeight(k)) /\ k \notin Flagged(ret.body)
    /\ \E i \in 1..Len(policy_targets) :
          /\ policy_targets[i].asset_class \notin HeldSleeves(SpecSleeve)
          /\ RLt(policy_targets[i].band, policy_targets[i].weight)
          /\ policy_targets[i].asset_class \notin Flagged(ret.body)

\* C15: a rebalance request with no policy stored ends in the precondition
\* failure "No policy set." (status 400), never in a rebalance result; with a
\* policy stored it returns a rebalance result
C15_NoPolicyPrecondition ==
    ret.op = "get_rebalance" =>
        IF policy = None
        THEN ret.status = 400 /\ ret.detail = "No policy set."
        ELSE ret.status = 200
             /\ DOMAIN ret.body = {"hard_drift", "suggestions"}

\* a rebalance request over held positions with no policy stored, answered 400
C15_Witness ==
    /\ ret.op = "get_rebalance"
    /\ policy = None
    /\ positions # <<>>
    /\ ret.status = 400

\* a snapshot run, manual or scheduled, has just committed
SnapshotCommitted ==
    ret.op \in {"capture_snapshot", "run_eod_snapshot"} /\ ret.status = 200

\* the rows stamped by the latest write transaction, in insertion order
LastRunPositionRows == SelectSeq(position_snapshots, LAMBDA r : r.ts = now - 1)
LastRunPortfolioRows == SelectSeq(portfolio_snapshots, LAMBDA r : r.ts = now - 1)

\* the sum of the values of a sleeve map
RECURSIVE MapSum(_)
MapSum(f) ==
    IF DOMAIN f = {} THEN RZero
    ELSE LET k == CHOOSE x \in DOMAIN f : TRUE
         IN  RAdd(f[k], MapSum([x \in DOMAIN f \ {k} |-> f[x]]))

\* C16: each successful run of capture_eod_snapshots adds exactly one
\* PositionSnapshot per existing position, carrying its quantity, resolved
\* price and resolved value, and exactly one PortfolioSnapshot whose total is
\* the sum of those values and whose per-sleeve map sums to that total, also
\* when there are no positions
C16_OneSnapshotPerPosition ==
    SnapshotCommitted =>
        /\ Len(LastRunPositionRows) = Len(positions)
        /\ \A i \in 1..Len(positions) :
              LET row == LastRunPositionRows[i]
                  pos == positions[i]
              IN  /\ row.account_id = pos.account_id
                  /\ row.instrument_id = pos.instrument_id
                  /\ row.qty = R(pos.quantity)
                  /\ row.px_eur = Resolved(pos)
                  /\ row.value_eur = SpecValue(pos)
        /\ Len(LastRunPortfolioRows) = 1
        /\ LastRunPortfolioRows[1].total_value_eur =
              RSum([i \in 1..Len(LastRunPositionRows) |-> LastRunPositionRows[i].value_eur])
        /\ MapSum(LastRunPortfolioRows[1].by_sleeve_json) =
              LastRunPortfolioRows[1].total_value_eur

\* a run over no positions that added only a PortfolioSnapshot of total 0,
\* after an earlier run over two positions that added two PositionSnapshots
\* of non-zero value and a PortfolioSnapshot of two sleeves
C16_Witness ==
    /\ SnapshotCommitted
    /\ positions = <<>>
    /\ LastRunPositionRows = <<>>
    /\ Len(LastRunPortfolioRows) = 1
    /\ LastRunPortfolioRows[1].total_value_eur = RZero
    /\ \E i \in 1..Len(portfolio_snapshots) :
          LET snap == portfolio_snapshots[i]
              rows == SelectSeq(position_snapshots, LAMBDA r : r.ts = snap.ts)
          IN  /\ Len(rows) = 2
              /\ RPos(rows[1].value_eur) /\ RPos(rows[2].value_eur)
              /\ Cardinality(DOMAIN snap.by_sleeve_json) = 2
              /\ snap.total_value_eur = RAdd(rows[1].value_eur, rows[2].value_eur)

\* the step is a snapshot run, manual or scheduled, that ended in an exception
SnapshotRunFailed ==
    /\ now' = now + 1
    /\ ret'.op \in {"capture_snapshot", "run_eod_snapshot"}
    /\ ret'.status = 500

\* C17: a snapshot run is all-or-nothing: a run of the manual endpoint or of
\* the scheduled job that fails after adding N of M position snapshots and
\* before the portfolio snapshot leaves, after the rollback, no
\* PositionSnapshot and no PortfolioSnapshot row of that run in the store, and
\* history() returns the same points as before the run
C17_SnapshotAtomicity ==
    [][SnapshotRunFailed =>
          /\ position_snapshots' = position_snapshots
          /\ portfolio_snapshots' = portfolio_snapshots
          /\ history' = history]_vars

\* a manual run over two positions that failed after adding one position
\* snapshot, following a committed run: the store holds the two rows of the
\* committed run and nothing of the failed one
C17_Witness ==
    /\ ret.op = "capture_snapshot" /\ ret.status = 500
    /\ Len(positions) = 2
    /\ ret.added = 1
    /\ Len(position_snapshots) = 2
    /\ \A i \in 1..Len(position_snapshots) : position_snapshots[i].ts < now - 1
    /\ \A i \in 1..Len(portfolio_snapshots) : portfolio_snapshots[i].ts < now - 1
    /\ Len(history) = Len(portfolio_snapshots)

\* C18: for the same store state the PortfolioSnapshot written by
\* capture_eod_snapshots has the same total value as latest_overview's
\* total_value and the same sleeve keys and per-sleeve values as its by_sleeve
C18_SnapshotAgreesWithOverview ==
    SnapshotCommitted =>
        LET snap == LastRunPortfolioRows[1]
            overview == latest_overview("EUR")
            sleeves == overview.by_sleeve
        IN  /\ snap.total_value_eur = overview.total_value
            /\ DOMAIN snap.by_sleeve_json = {sleeves[i].asset_class : i \in 1..Len(sleeves)}
            /\ \A i \in 1..Len(sleeves) :
                  snap.by_sleeve_json[sleeves[i].asset_class] = sleeves[i].value
            /\ \A i, j \in 1..Len(sleeves) :
                  sleeves[i].asset_class = sleeves[j].asset_class => i = j

\* a committed snapshot of two positions of one sleeve, the first valued at
\* its live price and the second by fallback, whose single sleeve value is
\* the total of the overview
C18_Witness ==
    /\ SnapshotCommitted
    /\ Len(positions) = 2
    /\ RPos(Resolved(positions[1])) /\ ~RPos(Resolved(positions[2]))
    /\ RPos(fallback_value(positions[2]))
    /\ DOMAIN LastRunPortfolioRows[1].by_sleeve_json = {"Equity"}
    /\ LastRunPortfolioRows[1].by_sleeve_json["Equity"] = latest_overview("EUR").total_value

\* the (timestamp, total value) pair of a PortfolioSnapshot
PointOf(snap) == [ts |-> snap.ts, total_value_eur |-> snap.total_value_eur]

\* C19: after any sequence of snapshot runs history() returns exactly one
\* (timestamp, total value) point per stored PortfolioSnapshot, in strictly
\* ascending timestamp order whatever the order of insertion
C19_HistoryAscending ==
    Answered("portfolio_history") =>
        /\ Len(ret.body) = Len(portfolio_snapshots)
        /\ {ret.body[i] : i \in 1..Len(ret.body)} =
              {PointOf(portfolio_snapshots[i]) : i \in 1..Len(portfolio_snapshots)}
        /\ \A i, j \in 1..Len(ret.body) : i < j => ret.body[i].ts < ret.body[j].ts

\* a history of three points read from a table whose rows are not in
\* timestamp order, the latest point being a run over valued positions
C19_Witness ==
    /\ Answered("portfolio_history")
    /\ Len(ret.body) = 3
    /\ \E i, j \in 1..Len(portfolio_snapshots) :
          i < j /\ portfolio_snapshots[j].ts < portfolio_snapshots[i].ts
    /\ RPos(ret.body[3].total_value_eur)

\* sequence a is an initial part of sequence b
IsPrefix(a, b) == Len(a) <= Len(b) /\ SubSeq(b, 1, Len(a)) = a

\* C20: the snapshot history is a pure append log: across any sequence of
\* operations (price cycles, holdings and NAV imports, policy replacement,
\* overview, rebalance, snapshot runs) a committed PositionSnapshot or
\* PortfolioSnapshot is never modified or deleted, and only a run of
\* capture_eod_snapshots creates such rows
C20_SnapshotsAppendOnly ==
    [][/\ IsPrefix(position_snapshots, position_snapshots')
       /\ IsPrefix(portfolio_snapshots, portfolio_snapshots')
       /\ (\/ position_snapshots' # position_snapshots
           \/ portfolio_snapshots' # portfolio_snapshots) =>
             /\ ret'.op \in {"capture_snapshot", "run_eod_snapshot"}
             /\ ret'.status = 200
             /\ now' = now + 1]_vars

\* a holdings import has deleted every position and the two PositionSnapshots
\* of the deleted positions and their PortfolioSnapshot are still stored
C20_Witness ==
    /\ ret.op = "upload_holdings_csv" /\ ret.status = 200
    /\ positions = <<>>
    /\ Len(position_snapshots) = 2
    /\ \E i \in 1..Len(portfolio_snapshots) :
          /\ RPos(portfolio_snapshots[i].total_value_eur)
          /\ \A j \in 1..2 : position_snapshots[j].ts = portfolio_snapshots[i].ts

\* the instrument of a position has no price observation, or is a foreign
\* listed instrument without a usable exchange rate
MissingData(pos) ==
    LET inst == instruments[pos.instrument_id]
    IN  \/ \A p \in prices : p.instrument_id # pos.instrument_id
        \/ ForeignListed(inst) /\ NoUsableRate(Upper(inst.currency))

\* the sum of the values a valuation has reported, one per position
ReportedTotal(values) == RSum([i \in 1..Len(values) |-> values[i]])

\* C23: missing data never aborts a valuation: latest_overview,
\* capture_eod_snapshots and get_positions answer whatever price, exchange
\* rate or cost data is missing; a position whose instrument has no price or
\* no usable exchange rate is valued by the fallback rule (0 without cost
\* data), every other position is still aggregated into the total, and with
\* no policy stored every sleeve's drift in latest_overview is 0
C23_MissingDataNeverAborts ==
    /\ ret.op \in {"portfolio_latest", "portfolio_positions", "capture_snapshot"} =>
          ret.status = 200
    /\ Answered("portfolio_positions") =>
          /\ Len(ret.body) = Len(positions)
          /\ \A i \in 1..Len(positions) :
                \E j \in 1..Len(ret.body) :
                   /\ ret.body[j].code = positions[i].instrument_id
                   /\ MissingData(positions[i]) =>
                         ret.body[j].value_eur = SpecFallback(positions[i])
                   /\ ~MissingData(positions[i]) =>
                         ret.body[j].value_eur =
                            RMul(R(positions[i].quantity), Resolved(positions[i]))
    /\ Answered("capture_snapshot") =>
          /\ Cardinality(LastRunRows) = Len(positions)
          /\ \A i \in 1..Len(positions) :
                \E row \in LastRunRows :
                   /\ row.instrument_id = positions[i].instrument_id
                   /\ MissingData(positions[i]) =>
                         row.value_eur = SpecFallback(positions[i])
                   /\ ~MissingData(positions[i]) =>
                         row.value_eur =
                            RMul(R(positions[i].quantity), Resolved(positions[i]))
          /\ portfolio_snapshots[Len(portfolio_snapshots)].total_value_eur =
                RSum([i \in 1..Len(positions) |-> SpecValue(positions[i])])
    /\ Answered("portfolio_latest") =>
          /\ ret.body.total_value =
                RSum([i \in 1..Len(positions) |-> SpecValue(positions[i])])
          /\ policy = None =>
                \A i \in 1..Len(ret.body.drift) : ret.body.drift[i].drift = RZero

\* an overview over a position without price and without cost data, valued
\* 0, and a position valued at a live price: the total is the live value
C23_Witness ==
    /\ Answered("portfolio_latest")
    /\ policy = None
    /\ MissingData(positions[1]) /\ SpecFallback(positions[1]) = RZero
    /\ ~MissingData(positions[2])
    /\ ret.body.total_value = RMul(R(positions[2].quantity), Resolved(positions[2]))
    /\ RPos(ret.body.total_value)

\* C24: a position in an instrument of asset class "Cash" needs no price
\* observation: it is valued at 1.0 reporting-currency unit per unit of
\* quantity, in the positions listing, the overview and the snapshot
C24_CashAtPar ==
    \A k \in 1..Len(positions) :
       LET pos == positions[k]
           inst == instruments[pos.instrument_id]
       IN  (inst.asset_class = "Cash" /\ pos.quantity > 0) =>
             /\ Answered("portfolio_positions") =>
                   \A j \in 1..Len(ret.body) :
                      ret.body[j].code = pos.instrument_id =>
                         ret.body[j].value_eur = R(pos.quantity)
             /\ (Answered("portfolio_latest") /\ Len(positions) = 1) =>
                   ret.body.total_value = R(pos.quantity)
             /\ Answered("capture_snapshot") =>
                   \A row \in LastRunRows :
                      row.instrument_id = pos.instrument_id =>
                         row.value_eur = R(pos.quantity)

\* the positions import_holdings_csv is meant to leave for an account: one per
\* CSV row with quantity > 0, and the positions of every other account
ReplacedPositions(account, csv) ==
    /\ \A i \in 1..Len(positions') :
          \/ positions'[i].account_id # account /\ positions'[i] \in
                {positions[j] : j \in 1..Len(positions)}
          \/ /\ positions'[i].account_id = account
             /\ positions'[i].instrument_id \in DOMAIN csv
             /\ csv[positions'[i].instrument_id] = positions'[i].quantity
             /\ positions'[i].quantity > 0
    /\ \A code \in DOMAIN csv :
          csv[code] > 0 =>
             \E i \in 1..Len(positions') :
                /\ positions'[i].account_id = account
                /\ positions'[i].instrument_id = code
    /\ \A j \in 1..Len(positions) :
          positions[j].account_id # account =>
             \E i \in 1..Len(positions') : positions'[i] = positions[j]

\* C26: a holdings import replaces the account named in the CSV: every
\* upload of a well-formed CSV succeeds and leaves, for that account, exactly
\* the instruments that have a CSV row with quantity > 0, at the quantity of
\* the row; every other position of the account is deleted, and the returned
\* count is the number of upserted positions
C26_ImportReplacesAccount ==
    [][ret'.op = "upload_holdings_csv" /\ ret' # ret =>
          /\ ret'.status = 200
          /\ \E account \in CsvAccounts :
             \E codes \in SUBSET DOMAIN instruments :
             \E csv \in [codes -> CsvQuantities] :
                /\ ReplacedPositions(account, csv)
                /\ ret'.rows = Cardinality({c \in codes : csv[c] > 0})]_vars

\* C27: an instrument's asset class is stable over its lifetime: once an
\* instrument exists, no operation (holdings import, NAV import, price cycle,
\* snapshot) changes its asset class
C27_AssetClassStable ==
    [][\A i \in DOMAIN instruments :
          /\ i \in DOMAIN instruments'
          /\ instruments'[i].asset_class = instruments[i].asset_class]_vars

\* the first of the first MAX_RETRIES responses that is a 200, 0 if none is
First200(responses) ==
    IF \E n \in 1..3 : responses[n] = "200"
    THEN CHOOSE n \in 1..3 :
            responses[n] = "200" /\ \A m \in 1..(n - 1) : responses[m] # "200"
    ELSE 0

\* C29: every provider request helper ends after at most three HTTP attempts
\* whatever the responses are: it returns the first 200 response as soon as
\* one arrives, and after three attempts without a 200 the crypto and ECB
\* helpers raise a request error while the listed helper returns None
C29_RetryTerminates ==
    ret.op \in {"crypto_request", "fx_ecb_request", "listed_request"} =>
       LET n == First200(ret.responses)
       IN  /\ ret.outcome.attempts <= 3
           /\ n # 0 =>
                 /\ "returned" \in DOMAIN ret.outcome
                 /\ ret.outcome.returned = Some(n)
                 /\ ret.outcome.attempts = n
           /\ n = 0 =>
                 /\ ret.outcome.attempts = 3
                 /\ ret.op \in {"crypto_request", "fx_ecb_request"} =>
                       /\ "raised" \in DOMAIN ret.outcome
                       /\ ret.outcome.raised = "RequestException"
                 /\ ret.op = "listed_request" =>
                       /\ "returned" \in DOMAIN ret.outcome
                       /\ ret.outcome.returned = None

\* the crypto helper rate-limited three times gives up with an exception
\* although the fourth response would have been a 200
C29_Witness ==
    /\ ret.op = "crypto_request"
    /\ \A n \in 1..3 : ret.responses[n] = "429"
    /\ ret.responses[4] = "200"
    /\ "raised" \in DOMAIN ret.outcome
    /\ ret.outcome.attempts = 3

\* the policy as stored: the base currency of the first Policy row and every
\* PolicyTarget row, whatever policy it belongs to
StoredPolicy ==
    [base_currency |-> policy[1].base_currency,
     targets |-> [i \in 1..Len(policy_targets) |->
                    [asset_class |-> policy_targets[i].asset_class,
                     weight |-> policy_targets[i].weight,
                     band |-> policy_targets[i].band]]]

\* C21: after any sequence of non-overlapping set_policy calls at most one
\* Policy row exists and the stored targets are exactly the targets of the
\* most recent call, every target of an earlier policy having been discarded;
\* get_policy returns the base currency and targets of the last call
C21_FullReplace ==
    [][/\ Len(policy') <= 1
       /\ ret'.op = "set_policy" =>
             /\ ret'.status = 200
             /\ Len(policy') = 1
             /\ StoredPolicy' = ret'.request
             /\ \A i \in 1..Len(policy_targets') :
                   policy_targets'[i].policy_id = policy'[1].id
       /\ ret'.op # "set_policy" =>
             policy' = policy /\ policy_targets' = policy_targets
       /\ ret'.op = "get_policy" =>
             /\ policy # <<>> => ret'.status = 200 /\ ret'.body = StoredPolicy
             /\ ret.op = "set_policy" => ret'.status = 200 /\ ret'.body = ret.request
             /\ policy = <<>> => ret'.status = 404]_vars

\* get_policy answers with the policy of a call that replaced an earlier
\* policy: the stored row carries the second id, the row of the first id and
\* its targets are gone
C21_Witness ==
    /\ Answered("get_policy")
    /\ Len(policy) = 1 /\ policy[1].id = 2
    /\ Len(ret.body.targets) = 2
    /\ ret.body.targets[2].asset_class = "Bonds"
    /\ \A i \in 1..Len(policy_targets) : policy_targets[i].policy_id = 2

\* C22: whenever a policy is stored its targets are keyed by distinct asset
\* classes: no two PolicyTarget rows of the same policy carry the same asset
\* class
C22_DistinctAssetClasses ==
    \A i, j \in 1..Len(policy_targets) :
       (i # j /\ policy_targets[i].policy_id = policy_targets[j].policy_id) =>
          policy_targets[i].asset_class # policy_targets[j].asset_class

\* C28: the POST /policy handler lets one writer at a time replace the
\* policy: once two overlapping set_policy requests have both committed there
\* is at most one Policy row, and the stored targets are those of one request
C28_OneWriterAtATime ==
    (\A s \in Sessions : sessions[s].pc = "idle") =>
       /\ Len(policy) <= 1
       /\ \A i \in 1..Len(policy_targets) :
             /\ policy # <<>>
             /\ policy_targets[i].policy_id = policy[1].id

\* C30: every trade suggestion emitted by suggest_trades has a strictly
\* positive amount: a sleeve is never flagged out of band while its required
\* trade value is zero, whatever the overview (a total value of 0 included)
\* and the policy
C30_PositiveAmounts ==
    Answered("get_rebalance") =>
       \A i \in 1..Len(ret.body.suggestions) : RPos(ret.body.suggestions[i].amount)

====
